---- MODULE Spec2Model ----
(***************************************************************************)
(* State-machine model of the scrape-and-aggregate pipeline of the         *)
(* Haverhill dart league site: runScrape (run orchestrator),               *)
(* scrapeSeasonStats (one season's pass: fetch, accumulate, upsert) and    *)
(* the route / background handlers that call runScrape and write the       *)
(* error entry of the run log.  The store is modelled table by table with  *)
(* the unique indexes of the schema; every database statement of a pass is *)
(* one step, so partial progress and interleavings of two runs are         *)
(* visible.                                                                *)
(***************************************************************************)
EXTENDS Integers, Sequences, FiniteSets, TLC

(***************************************************************************)
(* Bounds of the model.                                                    *)
(***************************************************************************)
MaxRuns == 2          \* invocations of the run-a-scrape operation per behaviour
MaxFaults == 1        \* injected store failures per behaviour
MaxRemoteChanges == 1 \* changes of the remote schedule feed per behaviour
MaxFetchFails == 1    \* failing fetches of the remote platform
MaxGuidLen == 7       \* characters of a recap GUID handed to guidToFakeId
MaxLegs == 3          \* legs of a set
MaxNotation == 4      \* characters of a cricket notation handed to the parser
MaxSched == 2         \* schedule matches in the round-inference calculation
MaxWeeks == 2         \* week rows of a player in the hot-hand calculation
MaxSets == 4          \* sets of a season in the strength-of-schedule calculation

(***************************************************************************)
(* The world of the model: two seasons, one of which carries match data,   *)
(* two teams with one rostered player each, two recap GUIDs.               *)
(***************************************************************************)
Seasons == {1, 2}
DataSeasons == {1}
DataSeason == CHOOSE s \in DataSeasons : TRUE
Teams == {1, 2}
Runs == {1, 2}
G1 == <<97>>
G2 == <<98>>
Guids == {G1, G2}
NULL == "null"   \* a null text column
NONE == -1       \* null / undefined where the code holds a number
UNKNOWN == 0     \* the "__unknown__" team id of matchMeta
NoGuid == <<>>   \* a null dcGuid

PlayerOf(t) == IF t = 1 THEN "p1" ELSE "p2"
TeamOf(p) == IF p = "p1" THEN 1 ELSE 2
Players == {PlayerOf(t) : t \in Teams}
Other(t) == 3 - t

\* league_match_id of the schedule feed entry of a match (positive)
MatchId(g) == IF g = G1 THEN 101 ELSE 102
\* scheduled date of a match (week number stands for the date string)
DateOf(g) == IF g = G1 THEN 1 ELSE 2

(***************************************************************************)
(* Pure helpers of the scraper.                                            *)
(***************************************************************************)
\* (h * 31 + c) | 0: the sum wrapped to a signed 32-bit integer.  The product
\* does not fit TLC's integers, so it is formed on the two 16-bit halves of h:
\* h = hi * 2^16 + lo with 0 <= lo < 2^16, and c is a UTF-16 code unit.
HalfWord == 2 ^ 16
MulAdd31(h, c) ==
    LET lo == (h % HalfWord) * 31 + c
        hi == ((h \div HalfWord) * 31 + (lo \div HalfWord)) % HalfWord
    IN  (IF hi >= HalfWord \div 2 THEN hi - HalfWord ELSE hi) * HalfWord + (lo % HalfWord)

RECURSIVE HashFrom(_, _)
HashFrom(h, s) == IF s = <<>> THEN h ELSE HashFrom(MulAdd31(h, Head(s)), Tail(s))

\* the hash without the complement of a non-negative value
guidToFakeIdNoFlip(guid) == HashFrom(0, guid)

\* return h < 0 ? h : ~h
guidToFakeId(guid) == LET h == HashFrom(0, guid) IN IF h < 0 THEN h ELSE -h - 1

RECURSIVE CountLegs(_, _)
CountLegs(legs, side) ==
    IF legs = <<>> THEN 0
    ELSE (IF Head(legs) = side THEN 1 ELSE 0) + CountLegs(Tail(legs), side)

\* a set is the sequence of the winner_index of its legs
setWinner(legs) ==
    IF Len(legs) = 0 THEN NONE
    ELSE LET home == CountLegs(legs, 0)
             away == CountLegs(legs, 1)
         IN IF home > away THEN 0 ELSE IF away > home THEN 1 ELSE NONE

(***************************************************************************)
(* Recap fixtures.  A recap kind gives the sets of a match (each set is    *)
(* the sequence of its legs' winner_index) and the opponents array of the  *)
(* authoritative recap endpoint.  An opponent's name is "H" / "A" when it  *)
(* equals the standings name of the home / away team and "X" when it       *)
(* matches no standings name.                                              *)
(***************************************************************************)
RecapKinds == {"KA", "KAr", "KB", "KP", "KT"}

SetsOf(k) ==
    CASE k = "KA"  -> << <<0>>, <<0, 1, 0>>, <<1, 1>> >>
      [] k = "KAr" -> << <<0>>, <<1, 0, 0>>, <<1, 1>> >>
      [] k = "KB"  -> << <<1>>, <<1, 0, 1>>, <<0, 0>> >>
      [] k = "KP"  -> << <<0>> >>
      [] OTHER     -> << <<0, 1>> >>

OpponentsOf(k) ==
    CASE k = "KA"  -> << [name |-> "H", score |-> 3], [name |-> "A", score |-> 1] >>
      [] k = "KAr" -> << [name |-> "A", score |-> 1], [name |-> "H", score |-> 3] >>
      [] k = "KB"  -> << >>
      [] k = "KP"  -> << [name |-> "X", score |-> 2], [name |-> "Y", score |-> 0] >>
      [] OTHER     -> << [name |-> "H", score |-> 1], [name |-> "A", score |-> 0] >>

\* the score the platform reports for a match, home side first
OfficialScore(k) ==
    CASE k = "KA"  -> <<3, 1>>
      [] k = "KAr" -> <<3, 1>>
      [] k = "KB"  -> <<1, 2>>
      [] k = "KP"  -> <<2, 0>>
      [] OTHER     -> <<1, 0>>

RECURSIVE CountSets(_, _)
CountSets(sets, side) ==
    IF sets = <<>> THEN 0
    ELSE (IF Len(Head(sets)) # 0 /\ setWinner(Head(sets)) = side THEN 1 ELSE 0)
         + CountSets(Tail(sets), side)

\* new Map(opponents.map(o => [o.name, o.score])).get(name): the last entry wins
RECURSIVE OppByName(_, _)
OppByName(opps, name) ==
    IF opps = <<>> THEN NONE
    ELSE LET rest == OppByName(Tail(opps), name)
         IN IF rest # NONE THEN rest
            ELSE IF Head(opps).name = name THEN Head(opps).score ELSE NONE

\* section I: the score written for a recap; hasData is "matchDataMap has the guid"
ReconcileScore(sets, opps, hasData) ==
    LET homeSetWins == CountSets(sets, 0)
        awaySetWins == CountSets(sets, 1)
    IN IF hasData /\ Len(opps) >= 2
       THEN LET fromHome == OppByName(opps, "H")
                fromAway == OppByName(opps, "A")
            IN IF fromHome # NONE /\ fromAway # NONE
               THEN <<fromHome, fromAway>>
               ELSE <<opps[1].score, opps[2].score>>
       ELSE <<homeSetWins, awaySetWins>>

(***************************************************************************)
(* The matches table.  A row is a record; id is the primary key and dcGuid *)
(* carries the unique index matches_dc_guid_idx (NULLs are distinct).      *)
(* Every row of the model belongs to DataSeason, so the season column is   *)
(* left out of the rows and of the WHERE clauses.                          *)
(***************************************************************************)
MatchRow(id, home, away, date, status, hs, as, guid) ==
    [id |-> id, home |-> home, away |-> away, date |-> date,
     status |-> status, homeScore |-> hs, awayScore |-> as, dcGuid |-> guid]

\* both unique indexes of the table hold
MatchesUnique(tbl) ==
    \A a, b \in tbl :
        a # b => a.id # b.id /\ (a.dcGuid = NoGuid \/ a.dcGuid # b.dcGuid)

\* status and scores (home_score ?? 0, away_score ?? 0) of the schedule feed entry
FeedStatus(played) == IF played THEN "C" ELSE "P"
FeedScore(played, k) == IF played THEN OfficialScore(k) ELSE <<0, 0>>

\* section H: insert(matches).values({id: m.id, ...}).onConflictDoUpdate({target: matches.id, ...})
SchedUpsert(tbl, id, home, away, date, status, score) ==
    IF \E row \in tbl : row.id = id
    THEN {IF row.id = id
          THEN [row EXCEPT !.status = status, !.homeScore = score[1], !.awayScore = score[2]]
          ELSE row : row \in tbl}
    ELSE tbl \cup {MatchRow(id, home, away, date, status, score[1], score[2], NoGuid)}

\* section I: update(matches).set({homeScore, awayScore, status: "C", dcGuid: guid})
\*            .where(season = target AND homeTeamId = home AND awayTeamId = away)
RecapUpdate(tbl, guid, home, away, score) ==
    {IF row.home = home /\ row.away = away
     THEN [row EXCEPT !.homeScore = score[1], !.awayScore = score[2],
                      !.status = "C", !.dcGuid = guid]
     ELSE row : row \in tbl}

\* ids of the rows the WHERE clause of the update selects
RecapUpdateHits(tbl, home, away) == {row.id : row \in {x \in tbl : x.home = home /\ x.away = away}}

\* ids of the rows the insert writes: the row holding the GUID, else the new row
RecapInsertHits(tbl, guid) ==
    IF \E row \in tbl : row.dcGuid = guid
    THEN {row.id : row \in {x \in tbl : x.dcGuid = guid}}
    ELSE {guidToFakeId(guid)}

\* section I: insert(matches).values({id: guidToFakeId(guid), ..., dcGuid: guid})
\*            .onConflictDoUpdate({target: matches.dcGuid, set: {...}})
\* A conflict on the primary key alone is not arbitrated and fails the statement:
\* the result is then the table with a second row of that id.
RecapInsert(tbl, guid, home, away, date, score) ==
    IF \E row \in tbl : row.dcGuid = guid
    THEN {IF row.dcGuid = guid
          THEN [row EXCEPT !.homeScore = score[1], !.awayScore = score[2],
                           !.status = "C", !.away = away]
          ELSE row : row \in tbl}
    ELSE tbl \cup {MatchRow(guidToFakeId(guid), home, away, date, "C", score[1], score[2], guid)}

(***************************************************************************)
(* The player_stats table: unique on (season, player, phase).  ins is the  *)
(* number of the run that inserted the row (it stands for the serial id).  *)
(***************************************************************************)
StatsRow(player, phase, vals, ins) ==
    [player |-> player, phase |-> phase, teamId |-> vals.teamId,
     setWins |-> vals.setWins, setLosses |-> vals.setLosses, pts01 |-> vals.pts01,
     ins |-> ins]

\* insert(playerStats).values(vals).onConflictDoUpdate({target: [seasonId, playerId, phase], set: vals})
StatsUpsert(tbl, player, phase, vals, ins) ==
    IF \E row \in tbl : row.player = player /\ row.phase = phase
    THEN {IF row.player = player /\ row.phase = phase
          THEN StatsRow(player, phase, vals, row.ins)
          ELSE row : row \in tbl}
    ELSE tbl \cup {StatsRow(player, phase, vals, ins)}

(***************************************************************************)
(* Accumulation (sections E to G) over the loaded segments.                *)
(***************************************************************************)
\* sets in which the side is not the winner: awardSet(players, winner === side, ...)
\* takes the loss branch for every set the side did not win
RECURSIVE CountNotWon(_, _)
CountNotWon(sets, side) ==
    IF sets = <<>> THEN 0
    ELSE (IF Len(Head(sets)) # 0 /\ setWinner(Head(sets)) # side THEN 1 ELSE 0)
         + CountNotWon(Tail(sets), side)

RECURSIVE SumOver(_, _)
SumOver(S, f) ==
    IF S = {} THEN 0
    ELSE LET x == CHOOSE y \in S : TRUE IN f[x] + SumOver(S \ {x}, f)

\* points_scored_01 of one player in the per-match player stats payload of a match
PtsOf(g) == IF g = G1 THEN 10 ELSE 20

\* the side (0 home, 1 away) a player is named on in the turns of a recap
SideOf(p, g, home) == IF home[g] = TeamOf(p) THEN 0 ELSE 1

\* PlayerAccum of a rostered player after sections E and F
Accum(p, segLoaded, psLoaded, discovered, home, recap) ==
    [setWins   |-> SumOver(segLoaded, [g \in segLoaded |-> CountSets(SetsOf(recap[g]), SideOf(p, g, home))]),
     setLosses |-> SumOver(segLoaded, [g \in segLoaded |-> CountNotWon(SetsOf(recap[g]), SideOf(p, g, home))]),
     pts01     |-> SumOver(psLoaded, [g \in psLoaded |-> PtsOf(g)])]

(***************************************************************************)
(* Outcomes of the fetches of one season pass.                             *)
(*   lineups, standings : TRUE when the fetch succeeded                    *)
(*   team[t]  : "ok", "roster" (the roster fetch failed, so the history    *)
(*              fetch of the same try block is skipped) or "hist"          *)
(*   recap[g] : "ok", "seg", "md", "ps" (that one fetch failed) or "all"   *)
(***************************************************************************)
TeamOutcomes == {"ok", "roster", "hist"}
RecapOutcomes == {"ok", "seg", "md", "ps", "all"}

FailCount(o) ==
      (IF o.lineups THEN 0 ELSE 1) + (IF o.standings THEN 0 ELSE 1)
    + Cardinality({t \in Teams : o.team[t] # "ok"})
    + Cardinality({g \in Guids : o.recap[g] # "ok"})

FetchOutcomes ==
    {o \in [lineups : BOOLEAN, standings : BOOLEAN,
            team : [Teams -> TeamOutcomes], recap : [Guids -> RecapOutcomes]] :
        FailCount(o) <= MaxFetchFails}

AllOk == [lineups |-> TRUE, standings |-> TRUE,
          team |-> [t \in Teams |-> "ok"], recap |-> [g \in Guids |-> "ok"]]

\* sequence of the elements of a set of GUIDs in feed order
SeqOfGuids(S) ==
    (IF G1 \in S THEN <<G1>> ELSE <<>>) \o (IF G2 \in S THEN <<G2>> ELSE <<>>)

Perms(S) == {q \in UNION {[1..n -> S] : n \in {Cardinality(S)}} :
                \A i, j \in DOMAIN q : i # j => q[i] # q[j]}

\* section C: the roster, in the order of the standings competitors
RosterOf(o) ==
    IF ~o.standings THEN <<>>
    ELSE (IF o.team[1] # "roster" THEN <<PlayerOf(1)>> ELSE <<>>)
      \o (IF o.team[2] # "roster" THEN <<PlayerOf(2)>> ELSE <<>>)

\* section C: matchMeta, from the history of every team whose fetches succeeded
MetaOf(o, histSet, home) ==
    LET seenBy == IF o.standings THEN {t \in Teams : o.team[t] = "ok"} ELSE {}
        found == IF seenBy = {} THEN {} ELSE histSet
    IN [g \in found |->
          [homeTeamId |-> IF home[g] \in seenBy THEN home[g] ELSE UNKNOWN,
           awayTeamId |-> IF Other(home[g]) \in seenBy THEN Other(home[g]) ELSE UNKNOWN]]

\* a failed fetch of a recap still fills the maps (the raw payload of the match)
SegLoadedAll(o, found) == found
SegLoaded(o, found) == {g \in found : o.recap[g] \notin {"seg", "all"}}
MdLoaded(o, found)  == {g \in found : o.recap[g] \notin {"md", "all"}}
PsLoaded(o, found)  == {g \in found : o.recap[g] \notin {"ps", "all"}}

\* segResults: the callback of a GUID awaits one allSettled of its three
\* fetches, which fulfils whatever the fetches did, so the callback fulfils
SegResults(o, found) == [g \in found |-> "fulfilled"]

\* debug.segmentsLoaded, debug.matchPlayerStatsLoaded, debug.segmentsErrors
SegDebug(o, found) ==
    [segmentsLoaded |-> Cardinality(SegLoaded(o, found)),
     matchPlayerStatsLoaded |-> Cardinality(PsLoaded(o, found)),
     segmentsErrors |-> Cardinality({g \in found : SegResults(o, found)[g] = "rejected"})]

(***************************************************************************)
(* Target selection of runScrape.  The result is the list of seasons to    *)
(* scrape, or a throw, or the early return of the active-only mode.        *)
(***************************************************************************)
Range(q) == {q[i] : i \in DOMAIN q}

RECURSIVE FilterSeq(_, _)
FilterSeq(q, keep) ==
    IF q = <<>> THEN <<>>
    ELSE (IF Head(q) \in keep THEN <<Head(q)>> ELSE <<>>) \o FilterSeq(Tail(q), keep)

Payloads == [all : BOOLEAN, force : BOOLEAN, seasonId : {0, 1, 2}]

\* the all mode without the lastScrapedAt filter
SelectSeasonsNoFilter(payload, allSeasonsList, active, unscraped) ==
    IF payload.all
    THEN [kind |-> "targets", targets |-> allSeasonsList]
    ELSE IF payload.seasonId # 0
    THEN IF payload.seasonId \in Range(allSeasonsList)
         THEN [kind |-> "targets", targets |-> <<payload.seasonId>>]
         ELSE [kind |-> "throw", targets |-> <<>>]
    ELSE IF active = <<>>
         THEN [kind |-> "return", targets |-> <<>>]
         ELSE [kind |-> "targets", targets |-> <<active[1]>>]

\* unscraped: the seasons whose stored lastScrapedAt is null
SelectSeasons(payload, allSeasonsList, active, unscraped) ==
    IF payload.all
    THEN IF payload.force
         THEN [kind |-> "targets", targets |-> allSeasonsList]
         ELSE [kind |-> "targets", targets |-> FilterSeq(allSeasonsList, unscraped)]
    ELSE IF payload.seasonId # 0
    THEN IF payload.seasonId \in Range(allSeasonsList)
         THEN [kind |-> "targets", targets |-> <<payload.seasonId>>]
         ELSE [kind |-> "throw", targets |-> <<>>]
    ELSE IF active = <<>>
         THEN [kind |-> "return", targets |-> <<>>]
         ELSE [kind |-> "targets", targets |-> <<active[1]>>]

(***************************************************************************)
(* parseCricketMarks: a notation is a sequence of characters; the scan     *)
(* follows the global regular expression                                   *)
(*   ([TDS](?:B|[0-9]+))(?:x([0-9]))?                                      *)
(* which is searched anywhere in the string, match after match.            *)
(***************************************************************************)
DigitChars == <<"0", "1", "2", "3", "4", "5", "6", "7", "8", "9">>
IsDigit(c) == \E i \in 1..Len(DigitChars) : DigitChars[i] = c
\* parseInt of one digit
DigitVal(c) == (CHOOSE i \in 1..Len(DigitChars) : DigitChars[i] = c) - 1

\* the first position at or after i that does not hold a digit: [0-9]+ is greedy
RECURSIVE DigitsEnd(_, _)
DigitsEnd(s, i) == IF i <= Len(s) /\ IsDigit(s[i]) THEN DigitsEnd(s, i + 1) ELSE i

\* the position after group 1 of a match that starts at i; 0 when none starts at i
HitEnd(s, i) ==
    IF i > Len(s) \/ s[i] \notin {"T", "D", "S"} THEN 0
    ELSE IF i + 1 <= Len(s) /\ s[i + 1] = "B" THEN i + 2
    ELSE IF DigitsEnd(s, i + 1) > i + 1 THEN DigitsEnd(s, i + 1)
    ELSE 0

\* TRUE when the optional group x<digit> follows at e
HasRep(s, e) == e + 1 <= Len(s) /\ s[e] = "x" /\ IsDigit(s[e + 1])

\* the marks of one match: hit is group 1, rep is group 2 or 1
HitMarks(hit, rep) ==
    IF hit = <<"D", "B">> THEN 2 * rep
    ELSE IF hit = <<"S", "B">> THEN 1 * rep
    ELSE IF hit[1] = "T" THEN 3 * rep
    ELSE IF hit[1] = "D" THEN 2 * rep
    ELSE IF hit[1] = "S" THEN 1 * rep
    ELSE 0

\* the loop over re.exec: the next match is searched from the end of the last
RECURSIVE ScanMarks(_, _)
ScanMarks(s, i) ==
    IF i > Len(s) THEN 0
    ELSE IF HitEnd(s, i) = 0 THEN ScanMarks(s, i + 1)
    ELSE LET e == HitEnd(s, i)
             hit == SubSeq(s, i, e - 1)
         IN  IF HasRep(s, e)
             THEN HitMarks(hit, DigitVal(s[e + 1])) + ScanMarks(s, e + 2)
             ELSE HitMarks(hit, 1) + ScanMarks(s, e)

\* a value of the feed's turn_score: a string, or something that is not one
Notation(chars) == [isString |-> TRUE, chars |-> chars]
NotAString == [isString |-> FALSE, chars |-> <<>>]

parseCricketMarks(notation) ==
    IF ~notation.isString THEN 0 ELSE ScanMarks(notation.chars, 1)

\* gameType: a game name is given by the substrings its lower-case form includes
GameNames == [has601 : BOOLEAN, has501 : BOOLEAN, hasCricket : BOOLEAN]
gameType(gameName) ==
    IF gameName.has601 THEN "601"
    ELSE IF gameName.has501 THEN "501"
    ELSE IF gameName.hasCricket THEN "crkt"
    ELSE "other"

(***************************************************************************)
(* awardSet of section E.  An accumulator holds the season tally, one      *)
(* tally per week bucket, the weeks played and the opponents-faced list.   *)
(* A set is given by the game name of its first leg, the winner_index of   *)
(* its legs and the names seen in its turns on each side, in the order of  *)
(* their first turn.                                                       *)
(***************************************************************************)
TypeKeys == {"crkt", "601", "501"}

EmptyTally ==
    [setWins |-> 0, setLosses |-> 0,
     typeWins |-> [k \in TypeKeys |-> 0], typeLosses |-> [k \in TypeKeys |-> 0]]

EmptyAcc ==
    [season |-> EmptyTally, weeks |-> [k \in {} |-> EmptyTally],
     weeksPlayed |-> {}, opponentNames |-> <<>>]

\* the win branch only: a side that is not the winner gets nothing
BumpWinOnly(t, isWinner, type) ==
    IF isWinner
    THEN [t EXCEPT !.setWins = @ + 1,
                   !.typeWins = IF type \in TypeKeys THEN [@ EXCEPT ![type] = @ + 1] ELSE @]
    ELSE t

\* the win branch or the loss branch of awardSet on one tally
Bump(t, isWinner, type) ==
    IF isWinner
    THEN [t EXCEPT !.setWins = @ + 1,
                   !.typeWins = IF type \in TypeKeys THEN [@ EXCEPT ![type] = @ + 1] ELSE @]
    ELSE [t EXCEPT !.setLosses = @ + 1,
                   !.typeLosses = IF type \in TypeKeys THEN [@ EXCEPT ![type] = @ + 1] ELSE @]

\* the body of the loop of awardSet for one player with an accumulator
AwardOne(a, isWinner, opponentPlayers, type, weekKey) ==
    LET w == IF weekKey \in DOMAIN a.weeks THEN a.weeks[weekKey] ELSE EmptyTally
    IN  [season |-> Bump(a.season, isWinner, type),
         weeks |-> [k \in DOMAIN a.weeks \cup {weekKey} |->
                       IF k = weekKey THEN Bump(w, isWinner, type) ELSE a.weeks[k]],
         weeksPlayed |-> a.weeksPlayed \cup {weekKey},
         opponentNames |-> a.opponentNames \o opponentPlayers]

\* accumByName after awardSet: players without an accumulator are skipped
awardSet(accumByName, playerSet, isWinner, opponentPlayers, type, weekKey) ==
    [p \in DOMAIN accumByName |->
        IF p \in Range(playerSet)
        THEN AwardOne(accumByName[p], isWinner, opponentPlayers, type, weekKey)
        ELSE accumByName[p]]

\* one iteration of the loop over the sets of a match, up to the two calls of awardSet
FoldSet(accumByName, set, weekKey) ==
    IF Len(set.legs) = 0 THEN accumByName
    ELSE LET type == gameType(set.game_name)
             winner == setWinner(set.legs)
         IN  awardSet(awardSet(accumByName, set.home, winner = 0, set.away, type, weekKey),
                      set.away, winner = 1, set.home, type, weekKey)


(***************************************************************************)
(* Section G and the sos column of section K.  A win fraction is kept as   *)
(* the exact number of PctScale-ths, PctScale being a multiple of every    *)
(* total of sets a player can have; toFixed(3) is the nearest number of    *)
(* thousandths, the larger one of two nearest.                             *)
(***************************************************************************)
RECURSIVE FoldSets(_, _, _)
FoldSets(accumByName, sets, weekKey) ==
    IF sets = <<>> THEN accumByName
    ELSE FoldSets(FoldSet(accumByName, Head(sets), weekKey), Tail(sets), weekKey)

RECURSIVE Factorial(_)
Factorial(n) == IF n <= 1 THEN 1 ELSE n * Factorial(n - 1)
PctScale == Factorial(MaxSets)

\* acc.setWins / total, or 0 without sets
WinPct(a) ==
    LET total == a.season.setWins + a.season.setLosses
    IN  IF total > 0 THEN (a.season.setWins * PctScale) \div total ELSE 0

playerWinPct(accumByName) == [name \in DOMAIN accumByName |-> WinPct(accumByName[name])]

\* playerWinPct.get(oppName) ?? 0
PctOrZero(pct, oppName) == IF oppName \in DOMAIN pct THEN pct[oppName] ELSE 0

RECURSIVE PctSum(_, _)
PctSum(pct, opponentNames) ==
    IF opponentNames = <<>> THEN 0
    ELSE PctOrZero(pct, Head(opponentNames)) + PctSum(pct, Tail(opponentNames))

\* (num / den).toFixed(3), in thousandths
ToFixed3(num, den) == (2000 * num + den) \div (2 * den)

\* the sos column of a player: NONE is null
SosOf(pct, a) ==
    IF Len(a.opponentNames) > 0
    THEN ToFixed3(PctSum(pct, a.opponentNames), PctScale * Len(a.opponentNames))
    ELSE NONE


(***************************************************************************)
(* Round numbers of history matches.  A week key is the sequence of the    *)
(* parts of "d Mon y" (empty when malformed); an ISO date is the triple    *)
(* <<y, mn, d>>, whose order is the order of the zero-padded strings.      *)
(***************************************************************************)
MonthNames == <<"Jan", "Feb", "Mar">>
DaysInMonth == <<31, 28, 31>>
NoDate == <<>>

weekKeyToISODate(weekKey) ==
    IF Len(weekKey) < 3 THEN NoDate
    ELSE IF \E i \in 1..Len(MonthNames) : MonthNames[i] = weekKey[2]
         THEN <<weekKey[3], CHOOSE i \in 1..Len(MonthNames) : MonthNames[i] = weekKey[2], weekKey[1]>>
         ELSE NoDate

\* a.localeCompare(b) < 0, and isoDate < minDate, on ISO dates
IsoLess(a, b) ==
    \/ a[1] < b[1]
    \/ a[1] = b[1] /\ a[2] < b[2]
    \/ a[1] = b[1] /\ a[2] = b[2] /\ a[3] < b[3]

\* new Date(iso).getTime() / 86400000, counted from the first day of the year of the model
RECURSIVE DaysBefore(_)
DaysBefore(mn) == IF mn <= 1 THEN 0 ELSE DaysInMonth[mn - 1] + DaysBefore(mn - 1)
DayNumber(iso) == DaysBefore(iso[2]) + iso[3]

MapPut(map, k, v) == [x \in DOMAIN map \cup {k} |-> IF x = k THEN v ELSE map[x]]

\* dateToRoundSeq after the loop over matchList (section H), ISO keys only
RECURSIVE dateToRoundSeq(_, _)
dateToRoundSeq(map, matchList) ==
    IF matchList = <<>> THEN map
    ELSE LET m == Head(matchList)
         IN  dateToRoundSeq(IF m.round_seq # NONE /\ m.sched_date # NoDate
                            THEN MapPut(map, m.sched_date, m.round_seq) ELSE map,
                            Tail(matchList))

\* isoEntries[0]: the entry of the earliest date
MinDate(map) == CHOOSE k \in DOMAIN map : \A j \in DOMAIN map : ~IsoLess(j, k)

\* the dates that get an inferred round from any whole number of days back
InferableAnyOffset(map, isoDates) ==
    {iso \in isoDates :
        /\ iso # NoDate
        /\ IsoLess(iso, MinDate(map))
        /\ iso \notin DOMAIN map
        /\ map[MinDate(map)] - (DayNumber(MinDate(map)) - DayNumber(iso)) \div 7 > 0}

\* the dates that get an inferred round: before the earliest entry, not yet in
\* the map, a positive multiple of 7 days back, and the round is positive
Inferable(map, isoDates) ==
    {iso \in isoDates :
        /\ iso # NoDate
        /\ IsoLess(iso, MinDate(map))
        /\ iso \notin DOMAIN map
        /\ LET daysBack == DayNumber(MinDate(map)) - DayNumber(iso)
           IN  /\ daysBack > 0
               /\ daysBack % 7 = 0
               /\ map[MinDate(map)] - daysBack \div 7 > 0}

\* dateToRoundSeq after the inference block, for the week keys of matchMeta
InferRounds(map, weekKeys) ==
    IF DOMAIN map = {} THEN map
    ELSE LET new == Inferable(map, {weekKeyToISODate(wk) : wk \in weekKeys})
         IN  [x \in DOMAIN map \cup new |->
                 IF x \in DOMAIN map THEN map[x]
                 ELSE map[MinDate(map)] - (DayNumber(MinDate(map)) - DayNumber(x)) \div 7]

\* roundSeq of section I: meta.roundSeq ?? matchData?.roundSeq ?? dateToRoundSeq.get(parsedDate) ?? null
RoundSeqOf(meta, matchData, map) ==
    LET parsedDate == IF matchData.schedDate # NoDate THEN matchData.schedDate
                      ELSE weekKeyToISODate(meta.weekKey)
    IN  IF meta.roundSeq # NONE THEN meta.roundSeq
        ELSE IF matchData.roundSeq # NONE THEN matchData.roundSeq
        ELSE IF parsedDate # NoDate /\ parsedDate \in DOMAIN map THEN map[parsedDate]
        ELSE NONE


(***************************************************************************)
(* scoring_config rows and the game-3 (tiebreaker) flags of a pass.        *)
(***************************************************************************)
\* the scope column of a season's rows: String(seasonId)
ScopeOf(seasonId) == ToString(seasonId)

\* unique index scoring_config_scope_div_key_idx
ConfigUnique(rows) ==
    \A a, b \in rows : a.scope = b.scope /\ a.division = b.division /\ a.key = b.key => a = b

\* the value of the row of a scope, a division and a key; NULL when there is none
RowValue(rows, scope, division, key) ==
    IF \E r \in rows : r.scope = scope /\ r.division = division /\ r.key = key
    THEN (CHOOSE r \in rows : r.scope = scope /\ r.division = division /\ r.key = key).value
    ELSE NULL

G3Keys == {"g3.include_180", "g3.include_ro9", "g3.include_hout",
           "g3.include_100plus", "g3.include_rnds", "g3.include_perfect"}

\* g3CfgMap: the global rows without a division, overwritten by the season's
\* rows without a division; rows with a division are not read
g3CfgMap(rows, targetSeasonId) ==
    [k \in G3Keys |->
        IF RowValue(rows, ScopeOf(targetSeasonId), NULL, k) # NULL
        THEN RowValue(rows, ScopeOf(targetSeasonId), NULL, k)
        ELSE RowValue(rows, "global", NULL, k)]

\* the flags when the tiebreaker exclusion is not applied
G3FlagsAllOn(cfg) ==
    [include180 |-> TRUE, includeRo9 |-> TRUE, includeHout |-> TRUE,
     include100p |-> TRUE, includeRnds |-> TRUE, includePerfect |-> TRUE]

G3Flags(cfg) ==
    [include180 |-> cfg["g3.include_180"] # "false",
     includeRo9 |-> cfg["g3.include_ro9"] # "false",
     includeHout |-> cfg["g3.include_hout"] # "false",
     include100p |-> cfg["g3.include_100plus"] = "true",
     includeRnds |-> cfg["g3.include_rnds"] = "true",
     includePerfect |-> cfg["g3.include_perfect"] = "true"]

(***************************************************************************)
(* The other sites that resolve scoring_config rows: the leaderboard's     *)
(* point values and hot-hand thresholds, and the admin panel.              *)
(***************************************************************************)
\* Number(r.value) of the values of the model
CfgNumber(v) ==
    CASE v = "2" -> 2 [] v = "3" -> 3 [] v = "15" -> 15 [] v = "18" -> 18
      [] v = "440" -> 440 [] v = "500" -> 500 [] OTHER -> 0

PtsKeys == {"cricket.win_pts", "601.win_pts", "501.win_pts"}

\* getScoringPts: rows without a division, the season's over the global ones, default 1
getScoringPts(rows, seasonId) ==
    [k \in PtsKeys |->
        IF RowValue(rows, ScopeOf(seasonId), NULL, k) # NULL
        THEN CfgNumber(RowValue(rows, ScopeOf(seasonId), NULL, k))
        ELSE IF RowValue(rows, "global", NULL, k) # NULL
             THEN CfgNumber(RowValue(rows, "global", NULL, k))
             ELSE 1]

HhKeys == {"01_hh.threshold", "ro_hh.threshold"}
Divisions == {"A", "B", "C", "D"}

\* DEFAULT_HH[div] ?? { hh: 475, roHh: 20 }
DEFAULT_HH(div) ==
    CASE div = "A" -> [hh |-> 475, roHh |-> 20]
      [] div = "B" -> [hh |-> 450, roHh |-> 17]
      [] div = "C" -> [hh |-> 425, roHh |-> 14]
      [] div = "D" -> [hh |-> 400, roHh |-> 12]
      [] OTHER -> [hh |-> 475, roHh |-> 20]

\* one field of result[div]: the season's row of that division, else the global
\* row of that division, else the default of the division
HhField(rows, seasonId, div, key, default) ==
    IF RowValue(rows, ScopeOf(seasonId), div, key) # NULL
    THEN CfgNumber(RowValue(rows, ScopeOf(seasonId), div, key))
    ELSE IF RowValue(rows, "global", div, key) # NULL
         THEN CfgNumber(RowValue(rows, "global", div, key))
         ELSE default

\* getHhThresholds: an entry for every division (NULL stands for the key "")
\* that has a threshold row in the global scope or in the season's
getHhThresholds(rows, seasonId) ==
    LET read == {r \in rows : r.scope \in {"global", ScopeOf(seasonId)} /\ r.key \in HhKeys}
    IN  [div \in {r.division : r \in read} |->
            [hh |-> HhField(rows, seasonId, div, "01_hh.threshold", DEFAULT_HH(div).hh),
             roHh |-> HhField(rows, seasonId, div, "ro_hh.threshold", DEFAULT_HH(div).roHh)]]

\* hhThresholds[div] ?? hhThresholds[""] ?? DEFAULT_HH[div] ?? { hh: 475, roHh: 20 }
ThresholdsFor(hhThresholds, div) ==
    IF div \in DOMAIN hhThresholds THEN hhThresholds[div]
    ELSE IF NULL \in DOMAIN hhThresholds THEN hhThresholds[NULL]
    ELSE DEFAULT_HH(div)

\* resolveConfig of the admin panel: global, global + division, scope, scope + division
resolveConfig(rows, scope, division, key) ==
    IF RowValue(rows, scope, division, key) # NULL THEN RowValue(rows, scope, division, key)
    ELSE IF RowValue(rows, scope, NULL, key) # NULL THEN RowValue(rows, scope, NULL, key)
    ELSE IF RowValue(rows, "global", division, key) # NULL THEN RowValue(rows, "global", division, key)
    ELSE RowValue(rows, "global", NULL, key)


(***************************************************************************)
(* Hot hand.  The scraper stores a value computed at scrape time; the      *)
(* leaderboard derives its own from the week rows and the thresholds.      *)
(***************************************************************************)
\* the greatest value of the sequence that is at least the threshold; none when there is none
RECURSIVE MaxAtLeast(_, _, _)
MaxAtLeast(values, threshold, none) ==
    IF values = <<>> THEN none
    ELSE LET rest == MaxAtLeast(Tail(values), threshold, none)
             v == Head(values)
         IN  IF ~(v >= threshold) THEN rest
             ELSE IF rest = none \/ v > rest THEN v ELSE rest

\* zeroOneHh of section K, from acc.weekHundredPlus: the greatest week total
\* over 450, else 0
RECURSIVE StoredZeroOneHh(_)
StoredZeroOneHh(weekTotals) ==
    IF weekTotals = <<>> THEN 0
    ELSE LET rest == StoredZeroOneHh(Tail(weekTotals))
             weekTotal == Head(weekTotals)
         IN  IF weekTotal > 450 /\ weekTotal > rest THEN weekTotal ELSE rest

RECURSIVE Column(_, _)
Column(weeks, field) ==
    IF weeks = <<>> THEN <<>> ELSE <<Head(weeks)[field]>> \o Column(Tail(weeks), field)

\* enrichedRows of the leaderboard: NONE is null
EnrichedHh(thresholds, weeks) ==
    [zeroOneHh |-> MaxAtLeast(Column(weeks, "hundredPlus"), thresholds.hh, NONE),
     roHh |-> MaxAtLeast(Column(weeks, "rnds"), thresholds.roHh, NONE)]

(***************************************************************************)
(* The turn loop of section E: what one turn of a rostered player adds to  *)
(* the player's season accumulator and to the week bucket (the same        *)
(* amounts go to both).  hOut is the candidate of the running maximum.     *)
(***************************************************************************)
\* the turn loop when the exclusion is applied to every leg of a 501 or
\* cricket set, not to leg 3 only
TurnEffectAnyLeg(g3, type, set_game_number, t) ==
    LET is501Tiebreaker == type = "501"
        isCrktG3 == type = "crkt"
        is01 == type \in {"601", "501"}
        isCrkt == type = "crkt"
        score01 == IF is01 THEN t.turn_score ELSE 0
        crktMarks == IF isCrkt THEN parseCricketMarks(t.turn_score) ELSE 0
        remaining == t.current_score
    IN  [hundredPlus |->
            IF is01 /\ score01 >= 100
                /\ (~is501Tiebreaker \/ g3.include100p \/ (g3.includePerfect /\ score01 = 180))
            THEN score01 ELSE 0,
         oneEighty |->
            IF is01 /\ score01 = 180 /\ (~is501Tiebreaker \/ g3.include180) THEN 1 ELSE 0,
         hOut |->
            IF is01 /\ remaining = 0 /\ score01 > 100 /\ (~is501Tiebreaker \/ g3.includeHout)
            THEN score01 ELSE 0,
         rnds |->
            IF isCrkt /\ crktMarks >= 6
                /\ (~isCrktG3 \/ g3.includeRnds \/ (g3.includePerfect /\ crktMarks = 9))
            THEN crktMarks ELSE 0,
         ro9 |->
            IF isCrkt /\ crktMarks = 9 /\ (~isCrktG3 \/ g3.includeRo9) THEN 1 ELSE 0]

TurnEffect(g3, type, set_game_number, t) ==
    LET is501Tiebreaker == type = "501" /\ set_game_number = 3
        isCrktG3 == type = "crkt" /\ set_game_number = 3
        is01 == type \in {"601", "501"}
        isCrkt == type = "crkt"
        score01 == IF is01 THEN t.turn_score ELSE 0
        crktMarks == IF isCrkt THEN parseCricketMarks(t.turn_score) ELSE 0
        remaining == t.current_score
    IN  [hundredPlus |->
            IF is01 /\ score01 >= 100
                /\ (~is501Tiebreaker \/ g3.include100p \/ (g3.includePerfect /\ score01 = 180))
            THEN score01 ELSE 0,
         oneEighty |->
            IF is01 /\ score01 = 180 /\ (~is501Tiebreaker \/ g3.include180) THEN 1 ELSE 0,
         hOut |->
            IF is01 /\ remaining = 0 /\ score01 > 100 /\ (~is501Tiebreaker \/ g3.includeHout)
            THEN score01 ELSE 0,
         rnds |->
            IF isCrkt /\ crktMarks >= 6
                /\ (~isCrktG3 \/ g3.includeRnds \/ (g3.includePerfect /\ crktMarks = 9))
            THEN crktMarks ELSE 0,
         ro9 |->
            IF isCrkt /\ crktMarks = 9 /\ (~isCrktG3 \/ g3.includeRo9) THEN 1 ELSE 0]


(***************************************************************************)
(* The loop over the legs of a set in section E, after the two calls of    *)
(* awardSet: the turn loop and the low-dart step of 501 legs.  A leg is    *)
(* its set_game_number, its winner_index, the darts_thrown of the two      *)
(* sides (NONE is null) and its turns; a turn names a player and a score   *)
(* on each side.  The stats of a player are kept next to the tallies of    *)
(* awardSet: season is the accumulator's hundredPlus, oneEighty, hOut,     *)
(* cricketRnds, ro9 and minDarts501, weeks the same fields of the week     *)
(* buckets (rnds and ldg there).                                           *)
(***************************************************************************)
LdgNone == 999

EmptyStats ==
    [hundredPlus |-> 0, oneEighty |-> 0, hOut |-> 0, rnds |-> 0, ro9 |-> 0, ldg |-> LdgNone]

EmptyPlayerStats == [season |-> EmptyStats, weeks |-> [k \in {} |-> EmptyStats]]

\* the week bucket w of a player: awardSet creates it with emptyWeek
HasWeek(acc, weekKey) == weekKey \in DOMAIN acc.weeks
WeekStats(ps, weekKey) == IF weekKey \in DOMAIN ps.weeks THEN ps.weeks[weekKey] ELSE EmptyStats

\* the five updates of the turn loop on one record of stats
AddTurn(s, e) ==
    [s EXCEPT !.hundredPlus = @ + e.hundredPlus,
              !.oneEighty = @ + e.oneEighty,
              !.hOut = IF e.hOut > @ THEN e.hOut ELSE @,
              !.rnds = @ + e.rnds,
              !.ro9 = @ + e.ro9]

\* the turn loop when the week bucket is left alone
TurnStatsSeasonOnly(ps, hasWeek, weekKey, e) ==
    [ps EXCEPT !.season = AddTurn(@, e)]

\* one side of one turn on the stats of the player it names: the season
\* fields always, the week bucket when there is one
TurnStats(ps, hasWeek, weekKey, e) ==
    [season |-> AddTurn(ps.season, e),
     weeks |-> IF hasWeek
               THEN [k \in DOMAIN ps.weeks \cup {weekKey} |->
                        IF k = weekKey THEN AddTurn(WeekStats(ps, weekKey), e) ELSE ps.weeks[k]]
               ELSE ps.weeks]

\* for (const side of ["home", "away"]) of one turn; a side without a name,
\* or naming a player without an accumulator, is skipped
SideTurn(statsByName, accumByName, g3, type, set_game_number, weekKey, t) ==
    IF t.name = NULL \/ t.name \notin DOMAIN accumByName THEN statsByName
    ELSE [statsByName EXCEPT ![t.name] =
            TurnStats(@, HasWeek(accumByName[t.name], weekKey), weekKey,
                      TurnEffect(g3, type, set_game_number, t))]

RECURSIVE FoldTurns(_, _, _, _, _, _, _)
FoldTurns(statsByName, accumByName, g3, type, set_game_number, weekKey, turns) ==
    IF turns = <<>> THEN statsByName
    ELSE FoldTurns(
            SideTurn(SideTurn(statsByName, accumByName, g3, type, set_game_number, weekKey,
                              Head(turns).home),
                     accumByName, g3, type, set_game_number, weekKey, Head(turns).away),
            accumByName, g3, type, set_game_number, weekKey, Tail(turns))

\* the new minimum of one player of the side that threw darts
LowDartOne(ps, hasWeek, weekKey, darts) ==
    [season |-> [ps.season EXCEPT !.ldg = IF darts < @ THEN darts ELSE @],
     weeks |-> IF hasWeek
               THEN [k \in DOMAIN ps.weeks \cup {weekKey} |->
                        IF k = weekKey
                        THEN [WeekStats(ps, weekKey) EXCEPT !.ldg = IF darts < @ THEN darts ELSE @]
                        ELSE ps.weeks[k]]
               ELSE ps.weeks]

\* the low-dart step when the side need not have won the leg
LowDartSideAnyLeg(statsByName, accumByName, leg, sideIdx, sideNames, weekKey) ==
    LET darts == leg.darts_thrown[sideIdx + 1]
    IN  IF darts = NONE \/ darts <= 0 THEN statsByName
        ELSE [p \in DOMAIN statsByName |->
                IF p \in Range(sideNames)
                THEN LowDartOne(statsByName[p], HasWeek(accumByName[p], weekKey), weekKey, darts)
                ELSE statsByName[p]]

\* the low-dart step of one side of a 501 leg: only the side that won the
\* leg, only a positive darts_thrown
LowDartSide(statsByName, accumByName, leg, sideIdx, sideNames, weekKey) ==
    LET darts == leg.darts_thrown[sideIdx + 1]
    IN  IF leg.winner_index # sideIdx THEN statsByName
        ELSE IF darts = NONE \/ darts <= 0 THEN statsByName
        ELSE [p \in DOMAIN statsByName |->
                IF p \in Range(sideNames)
                THEN LowDartOne(statsByName[p], HasWeek(accumByName[p], weekKey), weekKey, darts)
                ELSE statsByName[p]]

\* one iteration of for (const leg of legs)
FoldLeg(statsByName, accumByName, g3, type, leg, homePlayers, awayPlayers, weekKey) ==
    LET turned == FoldTurns(statsByName, accumByName, g3, type, leg.set_game_number, weekKey,
                            leg.turns)
    IN  IF type = "501"
        THEN LowDartSide(LowDartSide(turned, accumByName, leg, 0, homePlayers, weekKey),
                         accumByName, leg, 1, awayPlayers, weekKey)
        ELSE turned

RECURSIVE FoldLegs(_, _, _, _, _, _, _, _)
FoldLegs(statsByName, accumByName, g3, type, legs, homePlayers, awayPlayers, weekKey) ==
    IF legs = <<>> THEN statsByName
    ELSE FoldLegs(FoldLeg(statsByName, accumByName, g3, type, Head(legs), homePlayers,
                          awayPlayers, weekKey),
                  accumByName, g3, type, Tail(legs), homePlayers, awayPlayers, weekKey)

\* homePlayers / awayPlayers: the names of the turns of a side, in the order
\* of their first turn
RECURSIVE AddNames(_, _, _)
AddNames(names, turns, side) ==
    IF turns = <<>> THEN names
    ELSE LET n == Head(turns)[side].name
         IN  AddNames(IF n = NULL \/ n \in Range(names) THEN names ELSE Append(names, n),
                      Tail(turns), side)

RECURSIVE SidePlayers(_, _, _)
SidePlayers(names, legs, side) ==
    IF legs = <<>> THEN names
    ELSE SidePlayers(AddNames(names, Head(legs).turns, side), Tail(legs), side)

WinnerIndexes(legs) == [i \in 1..Len(legs) |-> legs[i].winner_index]

\* one iteration of for (const legs of sets): the tallies after awardSet and
\* the stats after the loop over the legs
FoldSetStats(fold, g3, game_name, legs, weekKey) ==
    IF Len(legs) = 0 THEN fold
    ELSE LET homePlayers == SidePlayers(<<>>, legs, "home")
             awayPlayers == SidePlayers(<<>>, legs, "away")
             awarded == FoldSet(fold.accum,
                                [game_name |-> game_name, legs |-> WinnerIndexes(legs),
                                 home |-> homePlayers, away |-> awayPlayers],
                                weekKey)
         IN  [accum |-> awarded,
              stats |-> FoldLegs(fold.stats, awarded, g3, gameType(game_name), legs,
                                 homePlayers, awayPlayers, weekKey)]

\* the ldg column of the player's season row (NONE is null) and of a week row
SeasonLdg(s) == IF s.ldg < LdgNone THEN s.ldg ELSE NONE
WeekLdg(w) == IF w.ldg < LdgNone THEN w.ldg ELSE 0

(***************************************************************************)
(* State.                                                                  *)
(***************************************************************************)
VARIABLES
    \* the remote platform
    activeSeasons,    \* pageProps.activeSeasons, a sequence of season ids
    archivedSeasons,  \* pageProps.archivedSeasons
    sched,            \* GUIDs of the matches the schedule feed of DataSeason lists
    hist,             \* GUIDs of the matches the team histories list (played matches)
    homeOf,           \* home team of each match
    recapOf,          \* recap kind of each match
    postOn,           \* TRUE when the season has postseason matches
    net,              \* which fetches of a pass on DataSeason fail
    remoteChanges,    \* number of changes of the schedule feed so far
    \* the store
    seasonsTbl,       \* season id -> [present, isActive, lastScrapedAt (0 is null)]
    teamsTbl,         \* dc ids of the team rows of DataSeason
    matchesTbl,       \* rows of matches
    statsTbl,         \* rows of player_stats
    memberTbl,        \* rows of player_season_teams of DataSeason
    scrapeLog,        \* rows of scrape_log, in insertion order
    \* the runs
    runNo,            \* invocations started so far; also the clock of the timestamps
    rs,               \* the state of each run slot
    faults,           \* store failures injected so far
    \* history
    viewBefore,       \* the store, without timestamps and log, when the latest run started
    lastIn,           \* the inputs of the latest finished run, while the remote data is unchanged
    \* the calculations of a pass, taken one at a time
    calc              \* the calculation at hand: its name, its input and, once applied, its result

remoteVars == <<activeSeasons, archivedSeasons, sched, hist, homeOf, recapOf, postOn, net, remoteChanges>>
storeVars == <<seasonsTbl, teamsTbl, matchesTbl, statsTbl, memberTbl, scrapeLog>>
histVars == <<viewBefore, lastIn>>
vars == <<remoteVars, storeVars, runNo, rs, faults, histVars, calc>>
\* every variable but calc
passVars == <<remoteVars, storeVars, runNo, rs, faults, histVars>>

AllSeasonsList == activeSeasons \o archivedSeasons

\* the store apart from timestamps and the run log
View == <<[s \in Seasons |-> [present |-> seasonsTbl[s].present, isActive |-> seasonsTbl[s].isActive]],
          teamsTbl, matchesTbl, statsTbl>>

NoResults == [s \in Seasons |-> "none"]
NoMeta == [g \in {} |-> 0]

\* the diagnostics of section D, before the batch
NoDebug == [segmentsLoaded |-> 0, matchPlayerStatsLoaded |-> 0, segmentsErrors |-> 0]

IdleRun ==
    [pc |-> "idle", no |-> 0, payload |-> [all |-> FALSE, force |-> FALSE, seasonId |-> 0],
     targets |-> <<>>, ti |-> 0, results |-> NoResults, raised |-> NoResults,
     errMsg |-> NULL, returned |-> "no", listOk |-> TRUE,
     season |-> 0, matchList |-> <<>>, comps |-> FALSE, roster |-> <<>>,
     meta |-> NoMeta, segs |-> <<>>, md |-> {}, ps |-> {}, teamMap |-> {}, i |-> 0,
     touched |-> {}, bf |-> FALSE, faulted |-> FALSE, faultPc |-> "none",
     debug |-> NoDebug]

\* the fetch outcomes that can occur for the given histories: a fetch that is
\* never issued does not fail
NetStates(histSet, home) ==
    {o \in FetchOutcomes :
        /\ ~o.standings => \A t \in Teams : o.team[t] = "ok"
        /\ \A g \in Guids \ DOMAIN MetaOf(o, histSet, home) : o.recap[g] = "ok"}

SeasonLists ==
    { [active |-> <<1>>, archived |-> <<2>>],
      [active |-> <<>>, archived |-> <<1, 2>>],
      [active |-> <<2, 1>>, archived |-> <<>>],
      [active |-> <<2>>, archived |-> <<>>],
      [active |-> <<>>, archived |-> <<>>] }

\* no calculation at hand
NoCalc == [op |-> "none"]

\* the store before the first run, no run started
InitStore ==
    /\ remoteChanges = 0
    /\ seasonsTbl = [s \in Seasons |-> [present |-> FALSE, isActive |-> FALSE, lastScrapedAt |-> 0]]
    /\ teamsTbl = {}
    /\ matchesTbl = {}
    /\ statsTbl = {}
    /\ memberTbl = {}
    /\ scrapeLog = <<>>
    /\ runNo = 0
    /\ rs = [r \in Runs |-> IdleRun]
    /\ faults = 0
    /\ viewBefore = <<>>
    /\ lastIn = <<>>

\* any season list; one played match, every fetch of a pass succeeds
Init ==
    /\ \E l \in SeasonLists : activeSeasons = l.active /\ archivedSeasons = l.archived
    /\ sched = {G1}
    /\ hist = {G1}
    /\ homeOf = [g \in Guids |-> 1]
    /\ recapOf = [g \in Guids |-> IF g = G1 THEN "KA" ELSE "KB"]
    /\ postOn = TRUE
    /\ net = AllOk
    /\ InitStore
    /\ calc = NoCalc

\* the season with match data is active or archived: any schedule, histories,
\* recaps and fetch failures
InitData ==
    /\ \E l \in {x \in SeasonLists : Len(x.active \o x.archived) = 2 /\ Len(x.active) < 2} :
         activeSeasons = l.active /\ archivedSeasons = l.archived
    /\ sched \in {{}, {G1}, Guids}
    /\ hist \in {{G1}, Guids}
    /\ homeOf \in {h \in [Guids -> Teams] : h[G1] = 1}
    /\ recapOf \in {k \in [Guids -> RecapKinds] : k[G1] # "KB" /\ k[G2] = "KB"}
    /\ postOn \in BOOLEAN
    /\ net \in NetStates(hist, homeOf)
    /\ InitStore
    /\ calc = NoCalc

\* as InitData, every fetch succeeds
InitOverlap ==
    /\ activeSeasons = <<1>>
    /\ archivedSeasons = <<2>>
    /\ sched \in {{}, {G1}, Guids}
    /\ hist \in {{G1}, Guids}
    /\ homeOf \in {h \in [Guids -> Teams] : h[G1] = 1}
    /\ recapOf \in {k \in [Guids -> RecapKinds] : k[G1] \in {"KA", "KT"} /\ k[G2] = "KB"}
    /\ postOn = TRUE
    /\ net = AllOk
    /\ InitStore
    /\ calc = NoCalc

(***************************************************************************)
(* runScrape: the steps before the season loop.                            *)
(***************************************************************************)
OthersIdle(r) == \A q \in Runs \ {r} : rs[q].pc = "idle"

\* POST /api/scrape or the background handler calls runScrape(payload, triggeredBy)
Start(r, p) ==
    /\ rs[r].pc = "idle"
    /\ runNo < MaxRuns
    /\ runNo' = runNo + 1
    /\ rs' = [rs EXCEPT ![r] = [IdleRun EXCEPT !.pc = "list", !.no = runNo + 1, !.payload = p]]
    /\ viewBefore' = View
    /\ UNCHANGED <<calc, remoteVars, storeVars, faults, lastIn>>

Fatal(run, msg) == [run EXCEPT !.pc = "fatal", !.errMsg = msg]

\* fetchLeaguePageProps, then the "No seasons found" check
FetchList(r) ==
    /\ rs[r].pc = "list"
    /\ \E ok \in BOOLEAN :
         rs' = [rs EXCEPT ![r] =
                  IF ~ok THEN Fatal([@ EXCEPT !.listOk = FALSE], "Could not find data-page")
                  ELSE IF Len(AllSeasonsList) = 0 THEN Fatal(@, "No seasons found")
                  ELSE [@ EXCEPT !.pc = "upsert"]]
    /\ UNCHANGED <<calc, remoteVars, storeVars, runNo, faults, histVars>>

\* the season upsert rewrites lastScrapedAt as null
UpsertSeasonRowReset(row, isActive) ==
    [present |-> TRUE, isActive |-> isActive, lastScrapedAt |-> 0]

\* insert(seasons).values({...}).onConflictDoUpdate({target: seasons.id, set: {name, isActive}})
UpsertSeasonRow(row, isActive) ==
    [present |-> TRUE, isActive |-> isActive, lastScrapedAt |-> row.lastScrapedAt]

\* the season upsert loop, then backfillArchivedMetadata (its standings fetch may fail)
UpsertSeasons(r) ==
    /\ rs[r].pc = "upsert"
    /\ seasonsTbl' = [s \in Seasons |->
                        IF s \in Range(AllSeasonsList)
                        THEN UpsertSeasonRow(seasonsTbl[s], s \in Range(activeSeasons))
                        ELSE seasonsTbl[s]]
    /\ \E bf \in (IF DataSeason \in Range(archivedSeasons) THEN BOOLEAN ELSE {FALSE}) :
         /\ teamsTbl' = IF bf THEN Teams ELSE teamsTbl
         /\ rs' = [rs EXCEPT ![r].pc = "select", ![r].bf = bf]
    /\ UNCHANGED <<calc, remoteVars, memberTbl, matchesTbl, statsTbl, scrapeLog, runNo, faults, histVars>>

Unscraped == {s \in Seasons : seasonsTbl[s].lastScrapedAt = 0}

\* pass locals of a run that is between two season passes
ClearPass(run) ==
    [run EXCEPT !.season = 0, !.matchList = <<>>, !.comps = FALSE,
                !.roster = <<>>, !.meta = NoMeta, !.segs = <<>>, !.md = {}, !.ps = {},
                !.teamMap = {}, !.i = 0, !.touched = {}, !.debug = NoDebug]

\* the season loop of runScrape moves to the next target, or to the log insert
NextTarget(run, k) ==
    IF k > Len(run.targets)
    THEN [ClearPass(run) EXCEPT !.ti = k, !.pc = "log"]
    ELSE [ClearPass(run) EXCEPT !.ti = k, !.pc = "fetch", !.season = run.targets[k]]

SelectTargets(r) ==
    /\ rs[r].pc = "select"
    /\ LET sel == SelectSeasons(rs[r].payload, AllSeasonsList, activeSeasons, Unscraped)
       IN rs' = [rs EXCEPT ![r] =
                   IF sel.kind = "throw" THEN Fatal(@, "Season not found")
                   ELSE IF sel.kind = "return" THEN [@ EXCEPT !.pc = "done", !.returned = "normal"]
                   ELSE NextTarget([@ EXCEPT !.targets = sel.targets], 1)]
    /\ UNCHANGED <<calc, remoteVars, storeVars, runNo, faults, histVars>>

(***************************************************************************)
(* scrapeSeasonStats: one season's pass.                                   *)
(***************************************************************************)
\* the catch of the season loop skips the remaining seasons
SeasonRaisedAbort(run, cause) ==
    [ClearPass(run) EXCEPT !.results[run.season] = "err", !.raised[run.season] = cause,
                           !.ti = Len(run.targets) + 1, !.pc = "log"]

\* catch (e) { seasonResults[key] = { ok: false, error } } and on to the next season
SeasonRaised(run, cause) ==
    NextTarget([run EXCEPT !.results[run.season] = "err", !.raised[run.season] = cause],
               run.ti + 1)

\* sections A to G: every fetch of the pass; the accumulation is a function of the
\* loaded maps and is computed where section K reads it.  segmentsMap iterates in
\* the order in which the recap fetches of the batch completed.
PassFetch(r) ==
    /\ rs[r].pc = "fetch"
    /\ LET s == rs[r].season
           data == (s \in DataSeasons)
           o == IF data THEN net ELSE AllOk
           meta == MetaOf(o, IF data THEN hist ELSE {}, homeOf)
           found == DOMAIN meta
       IN \E q \in Perms(SegLoaded(o, found)) :
            rs' = [rs EXCEPT ![r] =
                     [@ EXCEPT !.pc = "H", !.i = 1,
                               !.matchList = IF data /\ o.lineups THEN SeqOfGuids(sched) ELSE <<>>,
                               !.comps = data /\ o.standings,
                               !.roster = IF data THEN RosterOf(o) ELSE <<>>,
                               !.meta = meta, !.segs = q,
                               !.md = MdLoaded(o, found), !.ps = PsLoaded(o, found),
                               !.debug = SegDebug(o, found)]]
    /\ UNCHANGED <<calc, remoteVars, storeVars, runNo, faults, histVars>>

\* section H: one schedule entry per step (team upserts, then the match upsert);
\* after the loop the team ids are read back when the schedule was empty
PassH(r) ==
    /\ rs[r].pc = "H"
    /\ LET run == rs[r]
       IN IF run.i <= Len(run.matchList)
          THEN LET g == run.matchList[run.i]
                   played == g \in hist
               IN /\ teamsTbl' = teamsTbl \cup {homeOf[g], Other(homeOf[g])}
                  /\ matchesTbl' = SchedUpsert(matchesTbl, MatchId(g), homeOf[g], Other(homeOf[g]),
                                               DateOf(g), FeedStatus(played),
                                               FeedScore(played, recapOf[g]))
                  /\ rs' = [rs EXCEPT ![r].i = @ + 1,
                                      ![r].teamMap = @ \cup {homeOf[g], Other(homeOf[g])}]
          ELSE /\ rs' = [rs EXCEPT ![r].pc = "Iupd", ![r].i = 1,
                                   ![r].teamMap = IF Len(run.matchList) = 0 /\ run.comps
                                                  THEN teamsTbl ELSE @]
               /\ UNCHANGED <<teamsTbl, matchesTbl>>
    /\ UNCHANGED <<calc, remoteVars, memberTbl, seasonsTbl, statsTbl, scrapeLog, runNo, faults, histVars>>

\* the guards of section I that skip a recap
SkipsRecap(run, g) ==
    \/ run.meta[g].homeTeamId = UNKNOWN
    \/ run.meta[g].awayTeamId = UNKNOWN
    \/ run.meta[g].homeTeamId \notin run.teamMap
    \/ run.meta[g].awayTeamId \notin run.teamMap
    \/ CountSets(SetsOf(recapOf[g]), 0) + CountSets(SetsOf(recapOf[g]), 1) = 0

ScoreFor(run, g) == ReconcileScore(SetsOf(recapOf[g]), OpponentsOf(recapOf[g]), g \in run.md)

\* section I, first statement: the update by (season, home team, away team)
PassIUpdate(r) ==
    /\ rs[r].pc = "Iupd"
    /\ LET run == rs[r]
       IN IF run.i > Len(run.segs)
          THEN /\ rs' = [rs EXCEPT ![r].pc = "K", ![r].i = 1]
               /\ UNCHANGED matchesTbl
          ELSE LET g == run.segs[run.i]
               IN IF SkipsRecap(run, g)
                  THEN /\ rs' = [rs EXCEPT ![r].i = @ + 1]
                       /\ UNCHANGED matchesTbl
                  ELSE LET new == RecapUpdate(matchesTbl, g, run.meta[g].homeTeamId,
                                              run.meta[g].awayTeamId, ScoreFor(run, g))
                       IN IF MatchesUnique(new)
                          THEN /\ matchesTbl' = new
                               /\ rs' = [rs EXCEPT ![r].pc = "Iins",
                                                   ![r].touched = @ \cup RecapUpdateHits(matchesTbl, run.meta[g].homeTeamId,
                                                                                       run.meta[g].awayTeamId)]
                          ELSE /\ rs' = [rs EXCEPT ![r] = SeasonRaised(@, "unique")]
                               /\ UNCHANGED matchesTbl
    /\ UNCHANGED <<calc, remoteVars, memberTbl, seasonsTbl, teamsTbl, statsTbl, scrapeLog, runNo, faults, histVars>>

\* section I, second statement: the insert under the synthetic id
PassIInsert(r) ==
    /\ rs[r].pc = "Iins"
    /\ LET run == rs[r]
           g == run.segs[run.i]
           new == RecapInsert(matchesTbl, g, run.meta[g].homeTeamId, run.meta[g].awayTeamId,
                              DateOf(g), ScoreFor(run, g))
       IN IF MatchesUnique(new)
          THEN /\ matchesTbl' = new
               /\ rs' = [rs EXCEPT ![r].pc = "Iupd", ![r].i = @ + 1,
                                   ![r].touched = @ \cup RecapInsertHits(matchesTbl, g)]
          ELSE /\ rs' = [rs EXCEPT ![r] = SeasonRaised(@, "unique")]
               /\ UNCHANGED matchesTbl
    /\ UNCHANGED <<calc, remoteVars, memberTbl, seasonsTbl, teamsTbl, statsTbl, scrapeLog, runNo, faults, histVars>>

\* the values section K writes for a rostered player
StatsVals(run, p) ==
    LET acc == Accum(p, Range(run.segs), run.ps, DOMAIN run.meta, homeOf, recapOf)
    IN [teamId |-> IF TeamOf(p) \in teamsTbl THEN TeamOf(p) ELSE 0,
        setWins |-> acc.setWins, setLosses |-> acc.setLosses, pts01 |-> acc.pts01]

\* player_season_teams: unique on (player, season); no is the run that wrote the row last
MemberUpsert(tbl, player, teamId, no) ==
    {row \in tbl : row.player # player} \cup {[player |-> player, teamId |-> teamId, no |-> no]}

\* section K, first half of the iteration of one rostered player: the player row
\* and the membership row
PassKMember(r) ==
    /\ rs[r].pc = "K"
    /\ LET run == rs[r]
       IN IF run.i <= Len(run.roster)
          THEN LET p == run.roster[run.i]
               IN /\ memberTbl' = MemberUpsert(memberTbl, p, StatsVals(run, p).teamId, run.no)
                  /\ rs' = [rs EXCEPT ![r].pc = "Kstats"]
          ELSE /\ rs' = [rs EXCEPT ![r].pc = "post", ![r].i = 1]
               /\ UNCHANGED memberTbl
    /\ UNCHANGED <<calc, remoteVars, seasonsTbl, teamsTbl, matchesTbl, statsTbl, scrapeLog, runNo, faults, histVars>>

\* section K, second half of the iteration: the stats row (and the week rows) of the player
PassK(r) ==
    /\ rs[r].pc = "Kstats"
    /\ LET run == rs[r]
           p == run.roster[run.i]
       IN /\ statsTbl' = StatsUpsert(statsTbl, p, "REG", StatsVals(run, p), run.no)
          /\ rs' = [rs EXCEPT ![r].i = @ + 1, ![r].pc = "K"]
    /\ UNCHANGED <<calc, remoteVars, memberTbl, seasonsTbl, teamsTbl, matchesTbl, scrapeLog, runNo, faults, histVars>>

\* the postseason match of the model: team 1 at home, one set, won by the home side
PostSets == << <<0>> >>
PostVals(p) ==
    [teamId |-> IF TeamOf(p) \in teamsTbl THEN TeamOf(p) ELSE 0,
     setWins |-> CountSets(PostSets, IF TeamOf(p) = 1 THEN 0 ELSE 1),
     setLosses |-> CountNotWon(PostSets, IF TeamOf(p) = 1 THEN 0 ELSE 1),
     pts01 |-> PtsOf(G1)]

RECURSIVE UpsertPostRows(_, _, _)
UpsertPostRows(tbl, roster, no) ==
    IF roster = <<>> THEN tbl
    ELSE UpsertPostRows(StatsUpsert(tbl, Head(roster), "POST", PostVals(Head(roster)), no),
                        Tail(roster), no)

\* the postseason pass: nothing is written when no postseason match is found
PassPost(r) ==
    /\ rs[r].pc = "post"
    /\ statsTbl' = IF postOn THEN UpsertPostRows(statsTbl, rs[r].roster, rs[r].no) ELSE statsTbl
    /\ rs' = [rs EXCEPT ![r].pc = "finish"]
    /\ UNCHANGED <<calc, remoteVars, memberTbl, seasonsTbl, teamsTbl, matchesTbl, scrapeLog, runNo, faults, histVars>>

\* update(seasons).set({lastScrapedAt: new Date()}); the pass returns and the
\* season loop records { ok: true }
PassFinish(r) ==
    /\ rs[r].pc = "finish"
    /\ seasonsTbl' = [seasonsTbl EXCEPT ![rs[r].season].lastScrapedAt = rs[r].no]
    /\ rs' = [rs EXCEPT ![r] = NextTarget([@ EXCEPT !.results[@.season] = "ok"], @.ti + 1)]
    /\ UNCHANGED <<calc, remoteVars, memberTbl, teamsTbl, matchesTbl, statsTbl, scrapeLog, runNo, faults, histVars>>

PassPcs == {"fetch", "H", "Iupd", "Iins", "K", "Kstats", "post", "finish"}

\* a statement on the store fails (connection lost, timeout): inside a pass the
\* exception reaches the catch of the season loop, before the loop it leaves runScrape
DbFault(r) ==
    /\ faults < MaxFaults
    /\ \/ rs[r].pc \in PassPcs
       \/ rs[r].pc = "upsert"
       \/ rs[r].pc = "select" /\ rs[r].payload.all /\ ~rs[r].payload.force
    /\ faults' = faults + 1
    /\ rs' = [rs EXCEPT ![r] =
                IF @.pc \in PassPcs
                THEN SeasonRaised([@ EXCEPT !.faulted = TRUE, !.faultPc = rs[r].pc], "db")
                ELSE Fatal([@ EXCEPT !.faulted = TRUE, !.faultPc = rs[r].pc], "store failure")]
    /\ UNCHANGED <<calc, remoteVars, storeVars, runNo, histVars>>

(***************************************************************************)
(* The end of a run.                                                       *)
(***************************************************************************)
\* insert(scrapeLog).values({seasonId, triggeredBy, status: "success", ...})
LogEntry(run) == [run |-> run.no, status |-> "success", errorMessage |-> NULL]

WriteLog(r) ==
    /\ rs[r].pc = "log"
    /\ scrapeLog' = Append(scrapeLog, LogEntry(rs[r]))
    /\ rs' = [rs EXCEPT ![r].pc = "done", ![r].returned = "normal"]
    /\ UNCHANGED <<calc, remoteVars, memberTbl, seasonsTbl, teamsTbl, matchesTbl, statsTbl, runNo, faults, histVars>>

\* the catch of POST /api/scrape and of the background handler:
\* insert(scrapeLog).values({triggeredBy, status: "error", errorMessage: message})
HandlerCatch(r) ==
    /\ rs[r].pc = "fatal"
    /\ scrapeLog' = Append(scrapeLog, [run |-> rs[r].no, status |-> "error",
                                       errorMessage |-> rs[r].errMsg])
    /\ rs' = [rs EXCEPT ![r].pc = "done", ![r].returned = "thrown"]
    /\ UNCHANGED <<calc, remoteVars, memberTbl, seasonsTbl, teamsTbl, matchesTbl, statsTbl, runNo, faults, histVars>>

\* the request of a run and the outcomes of its fetches outside the season passes
Inputs(run) == [payload |-> run.payload, listOk |-> run.listOk, bf |-> run.bf]

\* the handler responds; the slot is free for the next invocation
Return(r) ==
    /\ rs[r].pc = "done"
    /\ lastIn' = IF rs[r].faulted THEN <<>> ELSE <<Inputs(rs[r])>>
    /\ rs' = [rs EXCEPT ![r] = IdleRun]
    /\ UNCHANGED <<calc, remoteVars, storeVars, runNo, faults, viewBefore>>

\* between two runs the schedule feed starts to list a further match
RemoteChange ==
    /\ \A r \in Runs : rs[r].pc = "idle"
    /\ remoteChanges < MaxRemoteChanges
    /\ runNo < MaxRuns
    /\ \E g \in Guids \ sched :
         sched' = sched \cup {g}
    /\ remoteChanges' = remoteChanges + 1
    /\ lastIn' = <<>>
    /\ UNCHANGED <<activeSeasons, archivedSeasons, hist, homeOf, recapOf, postOn, net,
                   storeVars, runNo, rs, faults, viewBefore, calc>>

StepNoFault(r) ==
    \/ FetchList(r)
    \/ UpsertSeasons(r)
    \/ SelectTargets(r)
    \/ PassFetch(r)
    \/ PassH(r)
    \/ PassIUpdate(r)
    \/ PassIInsert(r)
    \/ PassKMember(r)
    \/ PassK(r)
    \/ PassPost(r)
    \/ PassFinish(r)
    \/ WriteLog(r)
    \/ HandlerCatch(r)
    \/ Return(r)

\* the request that names the season with match data
DataPayload == [all |-> FALSE, force |-> FALSE, seasonId |-> DataSeason]

\* runs one after the other, any request, store failures
StartSeq == \E p \in Payloads : OthersIdle(1) /\ Start(1, p)

Next ==
    \/ StartSeq
    \/ StepNoFault(1)
    \/ DbFault(1)

Spec == Init /\ [][Next]_vars

\* runs one after the other on the season with match data; the schedule feed may change
StartData == OthersIdle(1) /\ Start(1, DataPayload)

NextData ==
    \/ StartData
    \/ StepNoFault(1)
    \/ RemoteChange

SpecData == InitData /\ [][NextData]_vars

\* two invocations that may overlap, on unchanged remote data
StartAny == \E r \in Runs : Start(r, DataPayload)

NextOverlap ==
    \/ StartAny
    \/ \E r \in Runs : StepNoFault(r)

SpecOverlap == InitOverlap /\ [][NextOverlap]_vars

\* between two runs the outcomes of the fetches change: the next run meets a
\* failure the run before did not meet
NetChange ==
    /\ \A r \in Runs : rs[r].pc = "idle"
    /\ 0 < runNo /\ runNo < MaxRuns
    /\ net = AllOk
    /\ \E o \in NetStates(hist, homeOf) \ {AllOk} : net' = o
    /\ lastIn' = <<>>
    /\ UNCHANGED <<activeSeasons, archivedSeasons, sched, hist, homeOf, recapOf, postOn,
                   remoteChanges, storeVars, runNo, rs, faults, viewBefore, calc>>

\* as InitOverlap: a first run whose fetches all succeed
InitPartial ==
    /\ activeSeasons = <<1>>
    /\ archivedSeasons = <<2>>
    /\ sched \in {{}, {G1}, Guids}
    /\ hist \in {{G1}, Guids}
    /\ homeOf \in {h \in [Guids -> Teams] : h[G1] = 1}
    /\ recapOf \in {k \in [Guids -> RecapKinds] : k[G1] # "KB" /\ k[G2] = "KB"}
    /\ postOn = TRUE
    /\ net = AllOk
    /\ InitStore
    /\ calc = NoCalc

\* runs one after the other on the season with match data; fetches start to fail
NextPartial ==
    \/ StartData
    \/ StepNoFault(1)
    \/ NetChange

SpecPartial == InitPartial /\ [][NextPartial]_vars

(***************************************************************************)
(* The admin panel's refresh: the caller posts the request, the handler    *)
(* delegates to the background function without awaiting it and answers    *)
(* "running", and the caller polls the status route until it reads an      *)
(* entry with status success or error.  calc holds the caller: after is    *)
(* the number of runs started before its request, entry the entry it       *)
(* reported.                                                               *)
(***************************************************************************)
NoEntry == [run |-> 0, status |-> "none", errorMessage |-> NULL]
IdleCaller == [op |-> "poll", pc |-> "idle", after |-> 0, entry |-> NoEntry]

\* GET /api/scrape/status: select().from(scrapeLog).orderBy(desc(id)).limit(1)
LatestEntry(log) == IF Len(log) = 0 THEN NoEntry ELSE log[Len(log)]

\* a run started by another trigger, before the caller's request
StartEarlier ==
    /\ calc.pc = "idle"
    /\ \E p \in Payloads : OthersIdle(1) /\ Start(1, p)

\* handleRefresh posts; POST /api/scrape fires the background request and
\* returns { status: "running" }
HandleRefresh ==
    /\ calc.pc = "idle"
    /\ calc' = [calc EXCEPT !.pc = "polling", !.after = runNo]
    /\ UNCHANGED passVars

\* the background function receives the request and calls runScrape
StartBackground ==
    /\ calc.pc # "idle"
    /\ runNo = calc.after
    /\ OthersIdle(1) /\ Start(1, DataPayload)

\* one round of poll(): no entry, or an entry of another status, polls again
Poll ==
    /\ calc.pc = "polling"
    /\ LET entry == LatestEntry(scrapeLog)
       IN  calc' = IF entry.status \in {"success", "error"}
                   THEN [calc EXCEPT !.pc = "reported", !.entry = entry]
                   ELSE calc
    /\ UNCHANGED passVars

\* fifteen minutes have passed
PollTimeout ==
    /\ calc.pc = "polling"
    /\ calc' = [calc EXCEPT !.pc = "timedOut"]
    /\ UNCHANGED passVars

InitPoll ==
    /\ \E l \in SeasonLists : activeSeasons = l.active /\ archivedSeasons = l.archived
    /\ sched = {G1}
    /\ hist = {G1}
    /\ homeOf = [g \in Guids |-> 1]
    /\ recapOf = [g \in Guids |-> IF g = G1 THEN "KA" ELSE "KB"]
    /\ postOn = TRUE
    /\ net = AllOk
    /\ InitStore
    /\ calc = IdleCaller

NextPoll ==
    \/ StartEarlier
    \/ HandleRefresh
    \/ StartBackground
    \/ StepNoFault(1)
    \/ Poll
    \/ PollTimeout

SpecPoll == InitPoll /\ [][NextPoll]_vars

(***************************************************************************)
(* POST /api/admin/scoring-config: a delete of the rows of (scope,         *)
(* division, key), then an insert, as two statements without a             *)
(* transaction.  calc holds the scoring_config table (id is the serial     *)
(* primary key) and the requests under way.                                *)
(***************************************************************************)
MaxCfgWrites == 3

CfgWriters == {1, 2}
CfgBodies == [scope : {"global"}, division : {NULL, "A"}, key : {"pts.win"}, value : {"1", "2"}]
IdleWriter == [pc |-> "idle", body |-> [scope |-> "global", division |-> NULL,
                                        key |-> "pts.win", value |-> "1"]]

\* scope = body.scope AND (division IS NULL | division = body.division) AND key = body.key
CfgMatches(row, body) ==
    row.scope = body.scope /\ row.division = body.division /\ row.key = body.key

\* scoring_config_scope_div_key_idx rejects the row: NULL divisions are distinct
CfgIndexRejects(tbl, body) ==
    body.division # NULL /\ \E row \in tbl : CfgMatches(row, body)

\* the handler has read a valid body
CfgPost(i) ==
    /\ calc.w[i].pc = "idle"
    /\ calc.n < MaxCfgWrites
    /\ \E body \in CfgBodies :
         calc' = [calc EXCEPT !.n = @ + 1, !.w[i] = [pc |-> "delete", body |-> body]]
    /\ UNCHANGED passVars

\* await db.delete(scoringConfig).where(...)
CfgDelete(i) ==
    /\ calc.w[i].pc = "delete"
    /\ calc' = [calc EXCEPT !.tbl = {row \in @ : ~CfgMatches(row, calc.w[i].body)},
                            !.w[i].pc = "insert"]
    /\ UNCHANGED passVars

\* await db.insert(scoringConfig).values({...}): a rejected insert throws out
\* of the handler
CfgInsert(i) ==
    /\ calc.w[i].pc = "insert"
    /\ LET body == calc.w[i].body
       IN  calc' = IF CfgIndexRejects(calc.tbl, body)
                   THEN [calc EXCEPT !.w[i].pc = "failed"]
                   ELSE [calc EXCEPT !.tbl = @ \cup {[id |-> calc.nextId, scope |-> body.scope,
                                                      division |-> body.division, key |-> body.key,
                                                      value |-> body.value]},
                                     !.nextId = @ + 1,
                                     !.w[i].pc = "ok"]
    /\ UNCHANGED passVars

\* the response: { ok: true }, or the error of the rejected insert
CfgRespond(i) ==
    /\ calc.w[i].pc \in {"ok", "failed"}
    /\ calc' = [calc EXCEPT !.w[i] = IdleWriter]
    /\ UNCHANGED passVars

InitConfig ==
    /\ activeSeasons = <<1>>
    /\ archivedSeasons = <<2>>
    /\ sched = {G1}
    /\ hist = {G1}
    /\ homeOf = [g \in Guids |-> 1]
    /\ recapOf = [g \in Guids |-> IF g = G1 THEN "KA" ELSE "KB"]
    /\ postOn = TRUE
    /\ net = AllOk
    /\ InitStore
    /\ calc = [op |-> "cfgWrite", tbl |-> {}, nextId |-> 1, n |-> 0,
               w |-> [i \in CfgWriters |-> IdleWriter]]

NextConfig ==
    \E i \in CfgWriters :
        \/ CfgPost(i)
        \/ CfgDelete(i)
        \/ CfgInsert(i)
        \/ CfgRespond(i)

SpecConfig == InitConfig /\ [][NextConfig]_vars

(***************************************************************************)
(* The calculations of a pass, taken one at a time on inputs drawn from    *)
(* bounded sets: calc holds the calculation's name and input and, once the *)
(* calculation is applied, its result.                                     *)
(***************************************************************************)
Pending(op) == calc.op = op /\ "res" \notin DOMAIN calc
Applied(op) == calc.op = op /\ "res" \in DOMAIN calc
Result(v) == [op |-> calc.op, arg |-> calc.arg, res |-> v]

\* the sets of at most two elements of R
UpToTwo(R) == {{}} \cup {{a, b} : a \in R, b \in R}

CfgScopes == {"global", ScopeOf(1), ScopeOf(2)}
CfgSets(divisions, keys, values) ==
    {rows \in UpToTwo([scope : CfgScopes, division : divisions, key : keys, value : values]) :
        ConfigUnique(rows)}

\* a turn of a 01 leg: turn_score is a number
Turn01Inputs ==
    [rows : CfgSets({NULL}, {"g3.include_180", "g3.include_100plus", "g3.include_perfect"},
                    {"true", "false"}),
     season : {1},
     type : {"501", "601"},
     set_game_number : {1, 2, 3},
     turn : [turn_score : {60, 100, 140, 180}, current_score : {0, 40}]]

\* a turn of a cricket leg: turn_score is a notation, or missing
T20x3 == <<"T", "2", "0", "x", "3">>
T20x2 == <<"T", "2", "0", "x", "2">>
S20 == <<"S", "2", "0">>
TurnCrktInputs ==
    [rows : CfgSets({NULL}, {"g3.include_ro9", "g3.include_rnds", "g3.include_perfect"},
                    {"true", "false"}),
     season : {1},
     type : {"crkt"},
     set_game_number : {1, 3},
     turn : [turn_score : {Notation(T20x3), Notation(T20x2), Notation(S20), NotAString},
             current_score : {0}]]

ApplyTurn ==
    /\ Pending("turn01") \/ Pending("turnCrkt")
    /\ calc' = Result(TurnEffect(G3Flags(g3CfgMap(calc.arg.rows, calc.arg.season)),
                                 calc.arg.type, calc.arg.set_game_number, calc.arg.turn))
    /\ UNCHANGED passVars

\* a set of a match: the names of the home side and of the away side, a roster
\* that may miss players of either side, legs with or without a winner
HomeNames == <<"h1", "h2">>
AwayNames == <<"a1", "a2">>
Rosters == {{"h1", "h2", "a1", "a2"}, {"h1", "a1", "a2"}, {"h2", "a1"}, {}}
LegSeqs == {<<>>} \cup UNION {[1..n -> {0, 1, NONE}] : n \in 1..MaxLegs}
SetInputs ==
    [roster : Rosters,
     set : [game_name : GameNames, legs : LegSeqs,
            home : {SubSeq(HomeNames, 1, n) : n \in 0..2},
            away : {SubSeq(AwayNames, 1, n) : n \in 0..2}],
     weekKey : {"w1"}]

ApplySet ==
    /\ Pending("set")
    /\ calc' = Result(FoldSet([p \in calc.arg.roster |-> EmptyAcc], calc.arg.set, calc.arg.weekKey))
    /\ UNCHANGED passVars


\* the sets of a season among four players, singles: p meets x, y and z, and y
\* meets z; the roster may miss x or z
SosNames == {"p", "x", "y", "z"}
SosPairs == {<<"p", "x">>, <<"p", "y">>, <<"p", "z">>, <<"y", "z">>}
SosSets ==
    {[game_name |-> [has601 |-> FALSE, has501 |-> FALSE, hasCricket |-> TRUE],
      legs |-> <<w>>, home |-> <<pr[1]>>, away |-> <<pr[2]>>] : w \in {0, 1}, pr \in SosPairs}
SosInputs ==
    [roster : {SosNames, SosNames \ {"x"}, SosNames \ {"z"}},
     sets : UNION {[1..n -> SosSets] : n \in 0..MaxSets}]

\* sections E (awardSet over every set), G and the sos of every rostered player
ApplySos ==
    /\ Pending("sos")
    /\ LET acc == FoldSets([n \in calc.arg.roster |-> EmptyAcc], calc.arg.sets, "w1")
           pct == playerWinPct(acc)
       IN  calc' = Result([n \in calc.arg.roster |-> SosOf(pct, acc[n])])
    /\ UNCHANGED passVars


\* a schedule of at most two matches with a date and possibly a round, and one
\* history match with a week key, with or without a round of its own
ModelYear == 2025
SchedDates == {<<ModelYear, 1, 15>>, <<ModelYear, 1, 29>>, <<ModelYear, 2, 5>>}
SchedRounds == {2, 6, NONE}
HistWeekKeys ==
    {<<d, "Jan", ModelYear>> : d \in 1..31} \cup {<<d, "Feb", ModelYear>> : d \in 1..5}
        \cup {<<>>, <<7, "Foo", ModelYear>>}
RoundInputs ==
    [matchList : UNION {[1..n -> [sched_date : SchedDates, round_seq : SchedRounds]] : n \in 0..MaxSched},
     meta : [weekKey : HistWeekKeys, roundSeq : {NONE, 3}]]

\* the round stored with the history match: inference block, then roundSeq of section I
ApplyRound ==
    /\ Pending("round")
    /\ LET map == InferRounds(dateToRoundSeq(<<>>, calc.arg.matchList), {calc.arg.meta.weekKey})
       IN  calc' = Result(RoundSeqOf(calc.arg.meta, [schedDate |-> NoDate, roundSeq |-> NONE], map))
    /\ UNCHANGED passVars


\* a turn_score handed to the parser: any short string over the characters of
\* the notation, or a value that is not a string
NotationChars == {"T", "D", "S", "B", "x", "0", "2", ","}
ParseInputs ==
    {Notation(chars) : chars \in UNION {[1..n -> NotationChars] : n \in 0..MaxNotation}}
        \cup {NotAString}

ApplyParse ==
    /\ Pending("parse")
    /\ calc' = Result(parseCricketMarks(calc.arg))
    /\ UNCHANGED passVars


\* at most two config rows of the keys of the three sites, resolved for a
\* season, a division and a key
SiteRows ==
    [scope : CfgScopes, division : {NULL, "A", "B"}, key : {"g3.include_100plus"}, value : {"true", "false"}]
        \cup [scope : CfgScopes, division : {NULL, "A", "B"}, key : {"501.win_pts"}, value : {"2", "3"}]
        \cup [scope : CfgScopes, division : {NULL, "A", "B"}, key : {"01_hh.threshold"}, value : {"440", "500"}]
        \cup [scope : CfgScopes, division : {NULL, "A", "B"}, key : {"ro_hh.threshold"}, value : {"15"}]
ConfigInputs ==
    [rows : {rows \in UpToTwo(SiteRows) : ConfigUnique(rows)},
     season : {1},
     division : {"A", "B"},
     key : {"g3.include_100plus", "501.win_pts", "01_hh.threshold"}]

\* the value the site that reads the key works with, and the admin panel's
SiteValue(rows, season, division, key) ==
    CASE key = "g3.include_100plus" -> IF G3Flags(g3CfgMap(rows, season)).include100p THEN 1 ELSE 0
      [] key = "501.win_pts" -> getScoringPts(rows, season)[key]
      [] key = "01_hh.threshold" -> ThresholdsFor(getHhThresholds(rows, season), division).hh

ApplyConfig ==
    /\ Pending("config")
    /\ calc' = Result([site |-> SiteValue(calc.arg.rows, calc.arg.season, calc.arg.division, calc.arg.key),
                       admin |-> resolveConfig(calc.arg.rows, ScopeOf(calc.arg.season),
                                               calc.arg.division, calc.arg.key)])
    /\ UNCHANGED passVars


\* the week rows of a player of a division, and at most two threshold rows
HhRows ==
    [scope : CfgScopes, division : {NULL, "B", "D"}, key : {"01_hh.threshold"}, value : {"440"}]
        \cup [scope : CfgScopes, division : {NULL, "B", "D"}, key : {"ro_hh.threshold"}, value : {"15"}]
WeekRows == [hundredPlus : {420, 460, 480}, rnds : {0, 16}]
HhInputs ==
    [rows : {rows \in UpToTwo(HhRows) : ConfigUnique(rows)},
     season : {1},
     division : {"B", "D"},
     weeks : UNION {[1..n -> WeekRows] : n \in 0..MaxWeeks}]

\* the leaderboard's hot hands, and the 01 hot hand the scraper stored
ApplyHh ==
    /\ Pending("hh")
    /\ LET thresholds == ThresholdsFor(getHhThresholds(calc.arg.rows, calc.arg.season), calc.arg.division)
           shown == EnrichedHh(thresholds, calc.arg.weeks)
       IN  calc' = Result([zeroOneHh |-> shown.zeroOneHh, roHh |-> shown.roHh,
                           stored |-> StoredZeroOneHh(Column(calc.arg.weeks, "hundredPlus"))])
    /\ UNCHANGED passVars


\* a recap GUID: the code units of "-", "0", "a", "f", up to a length at which
\* the hash wraps around
GuidChars == {45, 48, 97, 102}
FakeIdInputs == UNION {[1..n -> GuidChars] : n \in 0..MaxGuidLen}

ApplyFakeId ==
    /\ Pending("fakeId")
    /\ calc' = Result(guidToFakeId(calc.arg))
    /\ UNCHANGED passVars


\* the calculation at hand and its input
CalcInputs ==
    \/ calc \in [op : {"turn01"}, arg : Turn01Inputs]
    \/ calc \in [op : {"turnCrkt"}, arg : TurnCrktInputs]
    \/ calc \in [op : {"set"}, arg : SetInputs]
    \/ calc \in [op : {"sos"}, arg : SosInputs]
    \/ calc \in [op : {"round"}, arg : RoundInputs]
    \/ calc \in [op : {"parse"}, arg : ParseInputs]
    \/ calc \in [op : {"config"}, arg : ConfigInputs]
    \/ calc \in [op : {"hh"}, arg : HhInputs]
    \/ calc \in [op : {"fakeId"}, arg : FakeIdInputs]

InitCalc ==
    /\ activeSeasons = <<1>>
    /\ archivedSeasons = <<2>>
    /\ sched = {G1}
    /\ hist = {G1}
    /\ homeOf = [g \in Guids |-> 1]
    /\ recapOf = [g \in Guids |-> IF g = G1 THEN "KA" ELSE "KB"]
    /\ postOn = TRUE
    /\ net = AllOk
    /\ InitStore
    /\ CalcInputs

NextCalc ==
    \/ ApplyTurn
    \/ ApplySet
    \/ ApplySos
    \/ ApplyRound
    \/ ApplyParse
    \/ ApplyConfig
    \/ ApplyHh
    \/ ApplyFakeId

SpecCalc == InitCalc /\ [][NextCalc]_vars


(***************************************************************************)
(* The fold of section E over the sets of a season, one set at a time:     *)
(* calc holds the tallies and the stats of the rostered players after the  *)
(* sets folded so far, and seen records the legs that were folded.         *)
(***************************************************************************)
MaxFoldSets == 2
MaxFoldLegs == 2

FoldRosters == {{"h1", "a1"}, {"h1"}}
FoldWeekKeys == {"w1", "w2"}
FoldGameNames == {gn \in GameNames : gameType(gn) # "other" /\ ~(gn.has601 /\ (gn.has501 \/ gn.hasCricket))
                                     /\ ~(gn.has501 /\ gn.hasCricket)}

\* darts_thrown of the home side and of the away side
DartPairs == {<<12, 14>>, <<15, 13>>, <<NONE, 0>>}

\* the turns of a leg: one turn of h1 against a1
Turn(homeScore, homeLeft, awayScore, awayLeft) ==
    <<[home |-> [name |-> "h1", turn_score |-> homeScore, current_score |-> homeLeft],
       away |-> [name |-> "a1", turn_score |-> awayScore, current_score |-> awayLeft]]>>

TurnsOf(type, kind) ==
    IF type = "crkt"
    THEN IF kind = 1 THEN Turn(Notation(T20x2), 0, Notation(S20), 0)
                     ELSE Turn(Notation(T20x3), 0, Notation(T20x2), 0)
    ELSE IF kind = 1 THEN Turn(140, 40, 100, 0)
                     ELSE Turn(180, 0, 121, 0)

TurnKinds == {1, 2}

FoldLegSeqs ==
    UNION {[1..n -> [winner_index : {0, 1}, darts_thrown : DartPairs]] : n \in 1..MaxFoldLegs}

LegsOf(type, choice, kind) ==
    [i \in 1..Len(choice) |->
        [set_game_number |-> i, winner_index |-> choice[i].winner_index,
         darts_thrown |-> choice[i].darts_thrown, turns |-> TurnsOf(type, kind)]]

SeenLegs(type, weekKey, legs) ==
    {[type |-> type, weekKey |-> weekKey, winner_index |-> legs[i].winner_index,
      darts_thrown |-> legs[i].darts_thrown] : i \in 1..Len(legs)}

Folding == calc.op = "fold"

ApplyFoldSet ==
    /\ Folding
    /\ calc.n < MaxFoldSets
    /\ \E game_name \in FoldGameNames, weekKey \in FoldWeekKeys :
         \E choice \in FoldLegSeqs, kind \in TurnKinds :
            LET legs == LegsOf(gameType(game_name), choice, kind)
                fold == FoldSetStats([accum |-> calc.accum, stats |-> calc.stats],
                                     G3Flags(g3CfgMap({}, 1)), game_name, legs, weekKey)
            IN  calc' = [op |-> "fold", n |-> calc.n + 1,
                         accum |-> fold.accum, stats |-> fold.stats,
                         seen |-> calc.seen \cup SeenLegs(gameType(game_name), weekKey, legs)]
    /\ UNCHANGED passVars

InitFold ==
    /\ activeSeasons = <<1>>
    /\ archivedSeasons = <<2>>
    /\ sched = {G1}
    /\ hist = {G1}
    /\ homeOf = [g \in Guids |-> 1]
    /\ recapOf = [g \in Guids |-> IF g = G1 THEN "KA" ELSE "KB"]
    /\ postOn = TRUE
    /\ net = AllOk
    /\ InitStore
    /\ \E roster \in FoldRosters :
         calc = [op |-> "fold", n |-> 0,
                 accum |-> [p \in roster |-> EmptyAcc],
                 stats |-> [p \in roster |-> EmptyPlayerStats],
                 seen |-> {}]

NextFold == ApplyFoldSet

SpecFold == InitFold /\ [][NextFold]_vars

(***************************************************************************)
(* Properties.                                                             *)
(***************************************************************************)
\* at most one player_stats row per (season, player, phase)
StatsKeyUnique == \A a, b \in statsTbl : a.player = b.player /\ a.phase = b.phase => a = b

\* run r has finished and repeats the latest finished run on unchanged remote data
RepeatsLastRun(r) ==
    /\ rs[r].pc = "done"
    /\ ~rs[r].faulted
    /\ lastIn = <<Inputs(rs[r])>>

\* C1: a run that follows a run of the same request on unchanged remote data
\* leaves the store, apart from timestamps and the run log, as the first run
\* left it (no new row, one player_stats row per key, the same derived values).
C1_Idempotent ==
    \A r \in Runs : RepeatsLastRun(r) => View = viewBefore /\ StatsKeyUnique

\* the rows of the matches table that stand for the match of a recap GUID
RowsOf(g) == {row \in matchesTbl : row.id \in {MatchId(g), guidToFakeId(g)}}

UniqueRaised(r) == \E s \in Seasons : rs[r].raised[s] = "unique"

\* C2: the matches table never holds two rows for the match of one recap GUID,
\* and no pass fails on a uniqueness conflict, whatever the order in which the
\* history and the schedule feed show the match.
C2_OneRowPerMatch ==
    /\ \A g \in Guids : Cardinality(RowsOf(g)) <= 1
    /\ \A r \in Runs : ~UniqueRaised(r)

\* run r is past its season loop
LoopDone(r) == rs[r].pc = "log" \/ (rs[r].pc = "done" /\ rs[r].returned = "normal" /\ rs[r].targets # <<>>)

\* C3: a raise inside the pass of a target season is recorded under that season
\* and nothing else happens to the run: every target before the current one has
\* its own outcome, after the loop every target has one, seasons that are no
\* target have none, and a run that threw has processed no season.
C3_SeasonIsolation ==
    \A r \in Runs :
        /\ \A k \in 1..Len(rs[r].targets) :
              (k < rs[r].ti \/ LoopDone(r)) =>
                  /\ rs[r].results[rs[r].targets[k]] \in {"ok", "err"}
                  /\ rs[r].results[rs[r].targets[k]] = "err" <=> rs[r].raised[rs[r].targets[k]] # "none"
        /\ \A s \in Seasons \ Range(rs[r].targets) : rs[r].results[s] = "none"
        /\ rs[r].pc = "fatal" \/ rs[r].returned = "thrown" => rs[r].results = NoResults

\* a two-season run whose first pass raised and whose second pass succeeded
C3_Witness ==
    \E r \in Runs :
        /\ rs[r].pc = "done" /\ rs[r].returned = "normal" /\ Len(rs[r].targets) = 2
        /\ rs[r].results[rs[r].targets[1]] = "err"
        /\ rs[r].results[rs[r].targets[2]] = "ok"

\* run r ended with an error of the run or of a season
EndedWithError(r) ==
    /\ rs[r].pc = "done"
    /\ rs[r].returned = "thrown" \/ \E s \in Seasons : rs[r].results[s] = "err"

\* C4: the log entry of a run that aborted before the season loop, or one of
\* whose season passes raised, has the error status and an error message.
C4_ErrorsLogged ==
    \A r \in Runs :
        EndedWithError(r) =>
            /\ Len(scrapeLog) > 0
            /\ scrapeLog[Len(scrapeLog)].run = rs[r].no
            /\ scrapeLog[Len(scrapeLog)].status = "error"
            /\ scrapeLog[Len(scrapeLog)].errorMessage # NULL

\* a step that changes the lastScrapedAt of a season is the last step of a pass
\* on that season, and the pass returns without a raise
C5_Step ==
    \A s \in Seasons :
        seasonsTbl'[s].lastScrapedAt # seasonsTbl[s].lastScrapedAt =>
            \E r \in Runs : /\ rs[r].pc = "finish" /\ rs[r].season = s
                             /\ rs[r].results[s] = "none" /\ rs'[r].results[s] = "ok"

\* C5: lastScrapedAt of a season is written only by the last step of a pass on
\* it that did not raise; any other step, a raise included, leaves it as it was.
C5_LastScrapedAt == [][C5_Step]_vars

\* a season scraped by an earlier run whose pass raised in a later run
C5_Witness ==
    \E r \in Runs, s \in Seasons :
        /\ rs[r].results[s] = "err"
        /\ seasonsTbl[s].lastScrapedAt # 0
        /\ seasonsTbl[s].lastScrapedAt < rs[r].no

\* run r has left target selection behind (or has thrown before it)
AfterSelect(r) == rs[r].pc \notin {"idle", "list", "upsert", "select"}

\* run r has selected its targets and no pass of it has run yet
JustSelected(r) ==
    \/ rs[r].pc = "fetch" /\ rs[r].ti = 1
    \/ rs[r].pc = "log" /\ rs[r].targets = <<>>

StoredNull(s) == seasonsTbl[s].lastScrapedAt = 0

\* C6: the targets of a run are, by mode: {all, force} the fetched list; {all}
\* the listed seasons whose stored lastScrapedAt is null; {seasonId} that season,
\* and a throw before any pass when the list does not hold it; the empty payload
\* the first active season, and no season when none is active.
C6_TargetSelection ==
    \A r \in Runs :
        LET p == rs[r].payload
            t == rs[r].targets
        IN /\ JustSelected(r) /\ p.all /\ p.force => t = AllSeasonsList
           /\ JustSelected(r) /\ p.all /\ ~p.force => t = SelectSeq(AllSeasonsList, StoredNull)
           /\ JustSelected(r) /\ ~p.all /\ p.seasonId # 0 =>
                 t = <<p.seasonId>> /\ p.seasonId \in Range(AllSeasonsList)
           /\ JustSelected(r) /\ ~p.all /\ p.seasonId = 0 =>
                 activeSeasons # <<>> /\ t = <<activeSeasons[1]>>
           /\ AfterSelect(r) /\ ~p.all /\ p.seasonId # 0 /\ p.seasonId \notin Range(AllSeasonsList) =>
                 /\ rs[r].pc \in {"fatal", "done"} /\ rs[r].returned # "normal"
                 /\ rs[r].errMsg # NULL /\ t = <<>> /\ rs[r].results = NoResults
           /\ AfterSelect(r) /\ ~p.all /\ p.seasonId = 0 /\ activeSeasons = <<>> =>
                 t = <<>> /\ rs[r].results = NoResults

\* an {all} run that leaves out the one season an earlier run has scraped
C6_Witness ==
    \E r \in Runs :
        /\ JustSelected(r) /\ rs[r].payload.all /\ ~rs[r].payload.force
        /\ Len(AllSeasonsList) = 2 /\ Len(rs[r].targets) = 1

\* the units whose fetch succeeded
HistSeen == net.standings /\ \E t \in Teams : net.team[t] = "ok"
SegOk == IF HistSeen THEN {g \in hist : net.recap[g] \notin {"seg", "all"}} ELSE {}
PsOk == IF HistSeen THEN {g \in hist : net.recap[g] \notin {"ps", "all"}} ELSE {}
MdOk == IF HistSeen THEN {g \in hist : net.recap[g] \notin {"md", "all"}} ELSE {}
Rostered == IF net.standings THEN {p \in Players : net.team[TeamOf(p)] # "roster"} ELSE {}

\* sets of match g won / not won by the side of player p
WinsIn(p, g) == CountSets(SetsOf(recapOf[g]), IF homeOf[g] = TeamOf(p) THEN 0 ELSE 1)
LossesIn(p, g) == CountNotWon(SetsOf(recapOf[g]), IF homeOf[g] = TeamOf(p) THEN 0 ELSE 1)

\* C7: whatever fetches of a pass fail, the pass goes on to its upserts and no
\* fetch failure raises; the regular-season row of a player whose roster was
\* fetched sums exactly the matches whose segments (set columns) and per-player
\* stats (points column) were fetched, and a player whose roster fetch failed
\* gets no row.
C7_FetchIsolation ==
    /\ \A r \in Runs, s \in Seasons : rs[r].raised[s] \in {"none", "unique"}
    /\ \A r \in Runs :
          rs[r].pc \in {"post", "finish"} /\ rs[r].season \in DataSeasons =>
              /\ \A p \in Rostered :
                    \E row \in statsTbl :
                        /\ row.player = p /\ row.phase = "REG"
                        /\ row.setWins = SumOver(SegOk, [g \in SegOk |-> WinsIn(p, g)])
                        /\ row.setLosses = SumOver(SegOk, [g \in SegOk |-> LossesIn(p, g)])
                        /\ row.pts01 = SumOver(PsOk, [g \in PsOk |-> PtsOf(g)])
              /\ \A p \in Players \ Rostered : \A row \in statsTbl : row.player # p

\* a pass at its last step although the segments of one of two matches failed
C7_Witness ==
    \E r \in Runs :
        /\ rs[r].pc = "finish" /\ rs[r].season \in DataSeasons
        /\ hist = Guids /\ net.recap[G1] = "seg"
        /\ \E row \in statsTbl : row.phase = "REG" /\ row.setWins + row.setLosses > 0

\* both invocations are under way
Overlapping == \A r \in Runs : rs[r].pc # "idle"

\* C8: while two runs overlap on unchanged remote data (the schedule feed lists
\* at most one match), neither fails on a uniqueness conflict and the matches
\* table holds no second row for a match.
C8_OverlapSafe ==
    Overlapping /\ Cardinality(sched) <= 1 =>
        /\ \A r \in Runs : ~UniqueRaised(r)
        /\ \A g \in Guids : Cardinality(RowsOf(g)) <= 1

\* the per-side scores of the authoritative recap of a match, home side first
AuthScore(g) ==
    <<OppByName(OpponentsOf(recapOf[g]), "H"), OppByName(OpponentsOf(recapOf[g]), "A")>>

HasAuth(g) == g \in MdOk /\ AuthScore(g)[1] # NONE /\ AuthScore(g)[2] # NONE

\* C9: at the end of a pass every row of a completed match whose authoritative
\* recap returned per-side scores holds those scores, home and away.
C9_AuthoritativeScore ==
    \A r \in Runs :
        rs[r].pc = "finish" /\ rs[r].season \in DataSeasons =>
            \A g \in hist : HasAuth(g) =>
                \A row \in RowsOf(g) : <<row.homeScore, row.awayScore>> = AuthScore(g)

\* C10: after sections H and I of a pass, a played match of the schedule feed
\* whose recap fetches all failed has its row with the teams, date and status
\* of the feed, and no statement of section I of the pass has written that row.
C10_MissingRecap ==
    \A r \in Runs :
        rs[r].pc \in {"K", "Kstats", "post", "finish"} /\ rs[r].season \in DataSeasons =>
            \A g \in sched \cap hist :
                net.lineups /\ net.recap[g] = "all" =>
                    /\ \E row \in matchesTbl :
                          /\ row.id = MatchId(g) /\ row.home = homeOf[g] /\ row.away = Other(homeOf[g])
                          /\ row.date = DateOf(g) /\ row.status = FeedStatus(TRUE)
                    /\ MatchId(g) \notin rs[r].touched

\* the value a flag resolves to for a season: the season's row, else the global
\* row, else the default
FlagOn(rows, season, key, default) ==
    IF RowValue(rows, ScopeOf(season), NULL, key) # NULL
    THEN RowValue(rows, ScopeOf(season), NULL, key) = "true"
    ELSE IF RowValue(rows, "global", NULL, key) # NULL
         THEN RowValue(rows, "global", NULL, key) = "true"
         ELSE default

\* no row of the season or of the global scope: every flag is at its default
FlagsAtDefault(rows, season) == \A r \in rows : r.scope \notin {"global", ScopeOf(season)}

TiebreakerTurn(score) ==
    /\ Applied("turn01")
    /\ calc.arg.type = "501"
    /\ calc.arg.set_game_number = 3
    /\ calc.arg.turn.turn_score = score

\* C11: in the tiebreaker leg (leg 3) of a 501 set, with every flag at its
\* default a turn of exactly 140 adds nothing to the 100+ total (season and
\* week take the same amount); a turn of exactly 180 increments the 180 counter
\* (flag on by default) and adds to the 100+ total only if the perfect-score
\* flag or the include-100+ flag is enabled.
C11_TiebreakerDefault ==
    /\ TiebreakerTurn(140) /\ FlagsAtDefault(calc.arg.rows, calc.arg.season)
         => calc.res.hundredPlus = 0
    /\ TiebreakerTurn(180) /\ FlagOn(calc.arg.rows, calc.arg.season, "g3.include_180", TRUE)
         => calc.res.oneEighty = 1
    /\ TiebreakerTurn(180) /\ calc.res.hundredPlus # 0
         => \/ FlagOn(calc.arg.rows, calc.arg.season, "g3.include_perfect", FALSE)
            \/ FlagOn(calc.arg.rows, calc.arg.season, "g3.include_100plus", FALSE)

\* a tiebreaker 180 under the default flags: counted as a 180, not as 100+
C11_Witness ==
    /\ TiebreakerTurn(180)
    /\ calc.arg.rows = {}
    /\ calc.res.oneEighty = 1
    /\ calc.res.hundredPlus = 0

\* the set at hand has legs, and this side won strictly more of them
SideWon(side) ==
    /\ Applied("set")
    /\ Len(calc.arg.set.legs) > 0
    /\ CountLegs(calc.arg.set.legs, side) > CountLegs(calc.arg.set.legs, 1 - side)

SetTied ==
    /\ Applied("set")
    /\ CountLegs(calc.arg.set.legs, 0) = CountLegs(calc.arg.set.legs, 1)

\* C12: the winner of a set is the side that won strictly more legs; when the
\* leg wins are tied the set has no winner and no player of either side
\* receives a set win or a set loss, in the season tally, the week bucket or
\* the per-game-type records.
C12_SetWinner ==
    /\ \A side \in {0, 1} : SideWon(side) => setWinner(calc.arg.set.legs) = side
    /\ SetTied => /\ setWinner(calc.arg.set.legs) = NONE
                  /\ \A p \in DOMAIN calc.res :
                        /\ calc.res[p].season = EmptyTally
                        /\ \A k \in DOMAIN calc.res[p].weeks : calc.res[p].weeks[k] = EmptyTally

\* the accumulators the sets of the season give when every name has one
SosFullAcc == FoldSets([n \in SosNames |-> EmptyAcc], calc.arg.sets, "w1")

\* the mean, in thousandths, of the opponents' own season win fractions
SosMean(name) ==
    ToFixed3(PctSum(playerWinPct(SosFullAcc), SosFullAcc[name].opponentNames),
             PctScale * Len(SosFullAcc[name].opponentNames))

\* C13: for every rostered player with a non-empty opponents-faced list, SOS is
\* the mean over every entry of the list of that opponent's own season set-win
\* fraction wins/(wins+losses) after all sets are folded, an opponent counting
\* as 0 only when it has no sets played.
C13_StrengthOfSchedule ==
    Applied("sos") =>
        \A name \in calc.arg.roster :
            Len(SosFullAcc[name].opponentNames) > 0 => calc.res[name] = SosMean(name)

\* the schedule's dates with a round, and the anchor: the earliest of them
SchedMap == dateToRoundSeq(<<>>, calc.arg.matchList)
HistDate == weekKeyToISODate(calc.arg.meta.weekKey)

\* a history match without a round of its own, dated before the anchor
BeforeAnchor ==
    /\ Applied("round")
    /\ calc.arg.meta.roundSeq = NONE
    /\ DOMAIN SchedMap # {}
    /\ HistDate # NoDate
    /\ IsoLess(HistDate, MinDate(SchedMap))

DaysToAnchor == DayNumber(MinDate(SchedMap)) - DayNumber(HistDate)
AnchorRound == SchedMap[MinDate(SchedMap)]

\* C14 as stated: d days before the anchor the match gets round R - d/7 if and
\* only if d is a positive exact multiple of 7; for any other offset its round
\* stays null.
C14_AsStated ==
    BeforeAnchor =>
        IF DaysToAnchor % 7 = 0
        THEN calc.res = AnchorRound - DaysToAnchor \div 7
        ELSE calc.res = NONE

\* C14: with the earliest-dated schedule match that has a round R as the anchor,
\* a history match without a round of its own dated d days before the anchor
\* gets round R - d/7 if and only if d is an exact multiple of 7 and R - d/7 is
\* at least 1; otherwise no round is inferred and the stored round is null.
C14_RoundInference ==
    BeforeAnchor =>
        IF DaysToAnchor % 7 = 0 /\ AnchorRound - DaysToAnchor \div 7 >= 1
        THEN calc.res = AnchorRound - DaysToAnchor \div 7
        ELSE calc.res = NONE

\* 14 days before round 6: round 4
C14_Witness ==
    /\ BeforeAnchor
    /\ DaysToAnchor = 14
    /\ AnchorRound = 6
    /\ calc.res = 4

\* the first comma of a string, or one past its end
RECURSIVE CommaAt(_, _)
CommaAt(s, i) == IF i > Len(s) \/ s[i] = "," THEN i ELSE CommaAt(s, i + 1)

\* the marks of one token by the grammar: T<number> 3, D<number> 2, S<number> 1,
\* DB 2, SB 1, times the optional x<digit>; anything else, TB included, nothing
TokenMarks(tok) ==
    LET e == HitEnd(tok, 1)
    IN  IF e = 0 \/ SubSeq(tok, 1, e - 1) = <<"T", "B">> THEN 0
        ELSE IF e = Len(tok) + 1 THEN HitMarks(SubSeq(tok, 1, e - 1), 1)
        ELSE IF HasRep(tok, e) /\ e + 1 = Len(tok)
             THEN HitMarks(SubSeq(tok, 1, e - 1), DigitVal(tok[e + 1]))
             ELSE 0

\* the sum over the comma-separated tokens
RECURSIVE GrammarMarks(_)
GrammarMarks(s) ==
    LET c == CommaAt(s, 1)
    IN  TokenMarks(SubSeq(s, 1, c - 1))
            + (IF c > Len(s) THEN 0 ELSE GrammarMarks(SubSeq(s, c + 1, Len(s))))

\* C15: parseCricketMarks returns the sum over the comma-separated tokens of the
\* marks of the grammar; a bare 0 and every token outside the grammar (TB for
\* one) contribute nothing; empty or non-string input gives 0.
C15_CricketMarks ==
    Applied("parse") =>
        calc.res = IF calc.arg.isString THEN GrammarMarks(calc.arg.chars) ELSE 0

\* the row that decides a key for a season and a division: the season's row of
\* the division, the season's row without a division, the global row of the
\* division, the global row without a division; NULL when there is none
DecidingValue(rows, season, division, key) ==
    IF RowValue(rows, ScopeOf(season), division, key) # NULL
    THEN RowValue(rows, ScopeOf(season), division, key)
    ELSE IF RowValue(rows, ScopeOf(season), NULL, key) # NULL
         THEN RowValue(rows, ScopeOf(season), NULL, key)
         ELSE IF RowValue(rows, "global", division, key) # NULL
              THEN RowValue(rows, "global", division, key)
              ELSE RowValue(rows, "global", NULL, key)

\* the deciding value as the site works with it, the built-in default without a row
ResolvedValue(rows, season, division, key) ==
    LET v == DecidingValue(rows, season, division, key)
    IN  CASE key = "g3.include_100plus" -> IF v = "true" THEN 1 ELSE 0
          [] key = "501.win_pts" -> IF v = NULL THEN 1 ELSE CfgNumber(v)
          [] key = "01_hh.threshold" -> IF v = NULL THEN DEFAULT_HH(division).hh ELSE CfgNumber(v)

\* C16: for every key and every (season, division) every resolution site
\* returns the season-scoped row's value when one exists, otherwise the global
\* row's value, otherwise the built-in default, a division-specific row taking
\* precedence over the null-division row within a scope and a null-division
\* row applying to every division.
C16_ConfigResolution ==
    Applied("config") =>
        /\ calc.res.admin = DecidingValue(calc.arg.rows, calc.arg.season, calc.arg.division, calc.arg.key)
        /\ calc.res.site = ResolvedValue(calc.arg.rows, calc.arg.season, calc.arg.division, calc.arg.key)

\* the threshold resolved for a division by the order of C16
HhThreshold(key, default) ==
    LET v == DecidingValue(calc.arg.rows, calc.arg.season, calc.arg.division, key)
    IN  IF v = NULL THEN default ELSE CfgNumber(v)

\* the weeks of the player whose field meets the threshold
Qualifying(field, threshold) ==
    {i \in 1..Len(calc.arg.weeks) : calc.arg.weeks[i][field] >= threshold}

\* the greatest qualifying week total; NONE when no week qualifies
HotHand(field, threshold) ==
    IF Qualifying(field, threshold) = {} THEN NONE
    ELSE CHOOSE v \in {calc.arg.weeks[i][field] : i \in Qualifying(field, threshold)} :
            \A i \in Qualifying(field, threshold) : calc.arg.weeks[i][field] <= v

\* C17: the 01 hot hand of a player is the greatest weekly 100+ total among the
\* stored week rows whose total meets or exceeds the threshold resolved for the
\* player's division, and absent when no week qualifies; the cricket hot hand
\* is the same over the weekly rounds totals.
C17_HotHand ==
    Applied("hh") =>
        /\ calc.res.zeroOneHh = HotHand("hundredPlus", HhThreshold("01_hh.threshold", DEFAULT_HH(calc.arg.division).hh))
        /\ calc.res.roHh = HotHand("rnds", HhThreshold("ro_hh.threshold", DEFAULT_HH(calc.arg.division).roHh))

\* the statement that failed in run r was the stats upsert of a player of DataSeason
StatsFailed(r) ==
    /\ rs[r].faultPc = "Kstats"
    /\ rs[r].raised[DataSeason] = "db"

\* C18: a pass whose stats upsert fails has written the membership row of
\* every rostered player of the season.
C18_MembershipSurvives ==
    \A r \in Runs :
        StatsFailed(r) =>
            \A p \in Players : \E row \in memberTbl : row.player = p /\ row.no = rs[r].no

\* C19: guidToFakeId returns a strictly negative 32-bit integer for every recap
\* GUID, so the id of a history-sourced row never equals the (positive) id of a
\* schedule-sourced match; the result is a function of the GUID alone.
C19_FakeIdNegative ==
    Applied("fakeId") =>
        /\ calc.res < 0
        /\ calc.res >= -(2 ^ 30) - 2 ^ 30
        /\ calc.res = guidToFakeId(calc.arg)
        /\ \A g \in Guids : calc.res # MatchId(g)

\* a GUID long enough for the hash to wrap around to a negative value, which
\* is returned as it is
C19_Witness ==
    /\ Applied("fakeId")
    /\ Len(calc.arg) = MaxGuidLen
    /\ HashFrom(0, calc.arg) < 0
    /\ calc.res = HashFrom(0, calc.arg)

\* one win (or one loss) and nothing else, with one win (loss) in the record of
\* the game type when the type has a record
OneCredit(type, won) ==
    [setWins |-> IF won THEN 1 ELSE 0,
     setLosses |-> IF won THEN 0 ELSE 1,
     typeWins |-> [k \in TypeKeys |-> IF won /\ k = type THEN 1 ELSE 0],
     typeLosses |-> [k \in TypeKeys |-> IF ~won /\ k = type THEN 1 ELSE 0]]

\* what a set with a winner gives a rostered player named on a side
Credited(p, type, won, opponents) ==
    /\ calc.res[p].season = OneCredit(type, won)
    /\ DOMAIN calc.res[p].weeks = {calc.arg.weekKey}
    /\ calc.res[p].weeks[calc.arg.weekKey] = OneCredit(type, won)
    /\ calc.res[p].opponentNames = opponents

\* C20: for every set with a winner, each rostered player named on the winning
\* side has exactly one set win and each rostered player named on the losing
\* side exactly one set loss, in the season tally and in the week's bucket,
\* with one win / loss in the record of the set's game type (none for type
\* other), and has every name of the opposing side appended once to the
\* opponents-faced list; a rostered player named on neither side gets nothing.
C20_SetAward ==
    Applied("set") /\ Len(calc.arg.set.legs) > 0 /\ setWinner(calc.arg.set.legs) # NONE =>
        LET type == gameType(calc.arg.set.game_name)
            homeWon == setWinner(calc.arg.set.legs) = 0
        IN  \A p \in calc.arg.roster :
                /\ p \in Range(calc.arg.set.home) => Credited(p, type, homeWon, calc.arg.set.away)
                /\ p \in Range(calc.arg.set.away) => Credited(p, type, ~homeWon, calc.arg.set.home)
                /\ p \notin Range(calc.arg.set.home) \cup Range(calc.arg.set.away) => calc.res[p] = EmptyAcc

\* a 501 set won 2-1 by the home side, two rostered players on each side
C20_Witness ==
    /\ Applied("set")
    /\ calc.arg.set.legs = <<0, 1, 0>>
    /\ gameType(calc.arg.set.game_name) = "501"
    /\ calc.arg.set.home = HomeNames /\ calc.arg.set.away = AwayNames
    /\ calc.arg.roster = Range(HomeNames) \cup Range(AwayNames)
    /\ calc.res["h2"].season.setWins = 1 /\ calc.res["a2"].season.setLosses = 1
    /\ calc.res["a1"].season.typeLosses["501"] = 1
    /\ calc.res["h1"].opponentNames = AwayNames

\* every setting of the six tiebreaker flags
AllG3Flags ==
    [include180 : BOOLEAN, includeRo9 : BOOLEAN, includeHout : BOOLEAN,
     include100p : BOOLEAN, includeRnds : BOOLEAN, includePerfect : BOOLEAN]

AppliedTurn == Applied("turn01") \/ Applied("turnCrkt")

\* the turn is in leg 3 of a 501 set or of a cricket set
InTiebreakerLeg == calc.arg.type \in {"501", "crkt"} /\ calc.arg.set_game_number = 3

\* C21: the tiebreaker flags influence only turns in leg 3 of a 501 set and
\* leg 3 of a cricket set: for a turn of a 601 leg, or of leg 1 or 2 of a 501
\* or cricket set, what the turn adds to the stats is the same under every
\* setting of the flags.
C21_FlagScope ==
    AppliedTurn /\ ~InTiebreakerLeg =>
        \A g \in AllG3Flags :
            TurnEffect(g, calc.arg.type, calc.arg.set_game_number, calc.arg.turn) = calc.res

\* a 180 that checks out in leg 2 of a 501 set is counted although the 180
\* flag is configured off
C21_Witness ==
    /\ Applied("turn01")
    /\ calc.arg.type = "501" /\ calc.arg.set_game_number = 2
    /\ calc.arg.turn = [turn_score |-> 180, current_score |-> 0]
    /\ ~G3Flags(g3CfgMap(calc.arg.rows, calc.arg.season)).include180
    /\ calc.res.oneEighty = 1 /\ calc.res.hundredPlus = 180 /\ calc.res.hOut = 180

\* the index of the side a player of the fold is on
FoldSide(p) == IF p = "h1" THEN 0 ELSE 1

\* darts_thrown of the 501 legs, among the given legs, that the side won with
\* a positive darts_thrown
WonDarts(legs, sideIdx) ==
    {l.darts_thrown[sideIdx + 1] : l \in
        {x \in legs : x.type = "501" /\ x.winner_index = sideIdx
                      /\ x.darts_thrown[sideIdx + 1] # NONE /\ x.darts_thrown[sideIdx + 1] > 0}}

MinOf(S) == CHOOSE m \in S : \A x \in S : m <= x

\* C22: the season low-dart-game value of a rostered player is the minimum
\* positive darts_thrown over the 501 legs won by the player's side, and no
\* value when there is no such leg; the value of a week is the same minimum
\* over the legs of that week; lost legs and legs of 601 or cricket sets do
\* not count.
C22_LowDartGame ==
    Folding =>
        \A p \in DOMAIN calc.stats :
            LET won == WonDarts(calc.seen, FoldSide(p))
            IN  /\ SeasonLdg(calc.stats[p].season) = IF won = {} THEN NONE ELSE MinOf(won)
                /\ \A k \in DOMAIN calc.stats[p].weeks :
                     LET wonWeek == WonDarts({l \in calc.seen : l.weekKey = k}, FoldSide(p))
                     IN  WeekLdg(calc.stats[p].weeks[k]) = IF wonWeek = {} THEN 0 ELSE MinOf(wonWeek)

\* h1 won a 501 leg in 15 darts and lost one thrown in 12 darts in week 1,
\* and won a 501 leg in 12 darts in week 2: week 1 value 15, season value 12
C22_Witness ==
    /\ Folding
    /\ "h1" \in DOMAIN calc.stats
    /\ \E l \in calc.seen : l.type = "501" /\ l.weekKey = "w1" /\ l.winner_index = 1
                            /\ l.darts_thrown[1] = 12
    /\ \A l \in calc.seen : l.type = "501"
    /\ DOMAIN calc.stats["h1"].weeks = {"w1", "w2"}
    /\ SeasonLdg(calc.stats["h1"].season) = 12
    /\ WeekLdg(calc.stats["h1"].weeks["w1"]) = 15
    /\ WeekLdg(calc.stats["h1"].weeks["w2"]) = 12

\* the matches of the batch of run r for which a recap fetch failed
RecapFailed(r) ==
    {g \in DOMAIN rs[r].meta :
        g \notin Range(rs[r].segs) \/ g \notin rs[r].md \/ g \notin rs[r].ps}

\* C23: after the per-match recap batch, the failure count of the diagnostics
\* is the number of matches for which a recap fetch failed, and the loaded
\* counts are the numbers of matches whose segments and whose per-player
\* stats were fetched.
C23_Diagnostics ==
    \A r \in Runs :
        /\ rs[r].debug.segmentsErrors = Cardinality(RecapFailed(r))
        /\ rs[r].debug.segmentsLoaded = Cardinality(Range(rs[r].segs))
        /\ rs[r].debug.matchPlayerStatsLoaded = Cardinality(rs[r].ps)

\* sum, maximum and minimum of f over the week keys K
RECURSIVE SumWeeks(_, _)
SumWeeks(f, K) ==
    IF K = {} THEN 0
    ELSE LET k == CHOOSE x \in K : TRUE IN f[k] + SumWeeks(f, K \ {k})

RECURSIVE MaxWeeks0(_, _)
MaxWeeks0(f, K) ==
    IF K = {} THEN 0
    ELSE LET k == CHOOSE x \in K : TRUE
             rest == MaxWeeks0(f, K \ {k})
         IN  IF f[k] > rest THEN f[k] ELSE rest

RECURSIVE MinWeeks(_, _)
MinWeeks(f, K) ==
    IF K = {} THEN LdgNone
    ELSE LET k == CHOOSE x \in K : TRUE
             rest == MinWeeks(f, K \ {k})
         IN  IF f[k] < rest THEN f[k] ELSE rest

\* the season tally of a player is the sum of the tallies of the week buckets
TallyIsSum(a) ==
    LET K == DOMAIN a.weeks
    IN  /\ a.season.setWins = SumWeeks([k \in K |-> a.weeks[k].setWins], K)
        /\ a.season.setLosses = SumWeeks([k \in K |-> a.weeks[k].setLosses], K)
        /\ \A t \in TypeKeys :
             /\ a.season.typeWins[t] = SumWeeks([k \in K |-> a.weeks[k].typeWins[t]], K)
             /\ a.season.typeLosses[t] = SumWeeks([k \in K |-> a.weeks[k].typeLosses[t]], K)

\* the season stats of a player are the fold of the stats of the week buckets
StatsAreFold(ps) ==
    LET K == DOMAIN ps.weeks
    IN  /\ ps.season.hundredPlus = SumWeeks([k \in K |-> ps.weeks[k].hundredPlus], K)
        /\ ps.season.oneEighty = SumWeeks([k \in K |-> ps.weeks[k].oneEighty], K)
        /\ ps.season.ro9 = SumWeeks([k \in K |-> ps.weeks[k].ro9], K)
        /\ ps.season.rnds = SumWeeks([k \in K |-> ps.weeks[k].rnds], K)
        /\ ps.season.hOut = MaxWeeks0([k \in K |-> ps.weeks[k].hOut], K)
        /\ ps.season.ldg = MinWeeks([k \in K |-> ps.weeks[k].ldg], K)

\* C24: after folding any sets, for every rostered player the season set wins
\* and losses, the wins and losses per game type, the 100+ total, the 180
\* count, the 9-mark count and the cricket rounds total are the sums of the
\* values of the player's week buckets, the season high-out is the maximum of
\* the week high-outs and the season low-dart-game is the minimum of the week
\* values.
C24_SeasonIsFoldOfWeeks ==
    Folding =>
        \A p \in DOMAIN calc.stats :
            /\ DOMAIN calc.stats[p].weeks \subseteq DOMAIN calc.accum[p].weeks
            /\ TallyIsSum(calc.accum[p])
            /\ StatsAreFold(calc.stats[p])

\* h1 after a 501 set in week 1 and a cricket set in week 2, with a 100+
\* total and a high-out from week 1 and rounds and a 9-mark turn from week 2
C24_Witness ==
    /\ Folding
    /\ "h1" \in DOMAIN calc.stats
    /\ DOMAIN calc.stats["h1"].weeks = {"w1", "w2"}
    /\ calc.accum["h1"].season.setWins = 1 /\ calc.accum["h1"].season.setLosses = 1
    /\ calc.accum["h1"].weeks["w1"].typeWins["501"] = 1
    /\ calc.accum["h1"].weeks["w2"].typeLosses["crkt"] = 1
    /\ calc.stats["h1"].weeks["w1"].hundredPlus = 360 /\ calc.stats["h1"].weeks["w1"].hOut = 180
    /\ calc.stats["h1"].weeks["w1"].ldg = 12
    /\ calc.stats["h1"].weeks["w2"].rnds = 9 /\ calc.stats["h1"].weeks["w2"].ro9 = 1
    /\ calc.stats["h1"].season.hundredPlus = 360 /\ calc.stats["h1"].season.oneEighty = 2
    /\ calc.stats["h1"].season.rnds = 9 /\ calc.stats["h1"].season.ldg = 12

\* the entries of the run log written by the run numbered no
LogEntriesOf(no) == {i \in DOMAIN scrapeLog : scrapeLog[i].run = no}

\* C25: every invocation appends exactly one entry to the run log before it
\* finishes, with status success or error, in every mode and on every path,
\* the active-only run without an active season included.
C25_OneLogEntry ==
    \A r \in Runs :
        rs[r].pc = "done" =>
            /\ Cardinality(LogEntriesOf(rs[r].no)) = 1
            /\ \A i \in LogEntriesOf(rs[r].no) : scrapeLog[i].status \in {"success", "error"}

\* a row that section I wrote from the recap of the match whose GUID it holds
FromRecap(row) == row.dcGuid # NoGuid /\ row.status = "C"

\* the matches table when the invocation at hand started
MatchesBefore == IF viewBefore = <<>> THEN {} ELSE viewBefore[3]

\* run r is under way and a recap fetch of the match g fails in it
RecapFailing(r, g) ==
    rs[r].pc \notin {"idle", "list"} /\ rs[r].season \in DataSeasons /\ net.recap[g] # "ok"

\* C26: once a match row holds a score and the completed status written from
\* recap data, a later run in which a recap fetch of that match fails leaves
\* the row's home score, away score and status as they were when it started.
C26_ScoreSurvives ==
    \A r \in Runs : \A row \in MatchesBefore :
        FromRecap(row) /\ RecapFailing(r, row.dcGuid) =>
            \E kept \in matchesTbl :
                /\ kept.id = row.id
                /\ kept.homeScore = row.homeScore /\ kept.awayScore = row.awayScore
                /\ kept.status = row.status

\* C27: after a caller starts a background run and polls the run-status
\* query, the first success or error outcome it reports is the log entry
\* written by the run it started, never the entry of an earlier run.
C27_PollOwnRun ==
    calc.op = "poll" /\ calc.pc = "reported" => calc.entry.run = calc.after + 1

\* the season upsert at the start of a run leaves every stored lastScrapedAt
UpsertKeepsScrapedAt ==
    \A r \in Runs :
        rs[r].pc = "upsert" =>
            \A s \in Seasons : seasonsTbl'[s].lastScrapedAt = seasonsTbl[s].lastScrapedAt

\* the invocation before the one at hand was an all-mode run that reached the
\* season loop and in which no pass raised
AfterAllModeSuccess ==
    /\ lastIn # <<>>
    /\ lastIn[1].payload.all /\ lastIn[1].listOk
    /\ AllSeasonsList # <<>>

\* an all-mode run without force that follows such a run targets no season
NoTargetAfterSuccess ==
    \A r \in Runs :
        JustSelected(r) /\ rs[r].payload.all /\ ~rs[r].payload.force /\ AfterAllModeSuccess =>
            rs[r].targets = <<>>

\* the seasons an all-mode run started now would target
NextAllTargets(force) ==
    Range(SelectSeasons([all |-> TRUE, force |-> force, seasonId |-> 0],
                        AllSeasonsList, activeSeasons, Unscraped).targets)

\* run r is an all-mode run that has ended after its season loop
AllModeEnded(r) == rs[r].pc = "done" /\ rs[r].returned = "normal" /\ rs[r].payload.all

\* the seasons whose pass raised in run r are targets of the next all-mode run
FailedRetried(r) ==
    \A s \in Seasons :
        rs[r].results[s] = "err" => \A force \in BOOLEAN : s \in NextAllTargets(force)

\* C28 as stated: the season upsert never changes a stored lastScrapedAt; an
\* all-mode run without force that follows an all-mode run in which every
\* pass succeeded targets no season; a season whose pass failed in an
\* all-mode run, forced or not, is targeted by the next all-mode run.
C28_AsStated ==
    /\ [][UpsertKeepsScrapedAt]_vars
    /\ [](NoTargetAfterSuccess /\ \A r \in Runs : AllModeEnded(r) => FailedRetried(r))

\* C28: the season upsert never changes a stored lastScrapedAt; an all-mode
\* run without force that follows an all-mode run in which every pass
\* succeeded targets no season; a season whose pass failed in an all-mode run
\* without force is targeted by the next all-mode run.
C28_Converges ==
    /\ [][UpsertKeepsScrapedAt]_vars
    /\ [](NoTargetAfterSuccess
          /\ \A r \in Runs : AllModeEnded(r) /\ ~rs[r].payload.force => FailedRetried(r))

\* the second of two all-mode runs over two seasons, the first of which
\* scraped both, has selected no target
C28_Witness ==
    \E r \in Runs :
        /\ JustSelected(r) /\ rs[r].no = 2
        /\ rs[r].payload.all /\ ~rs[r].payload.force /\ AfterAllModeSuccess
        /\ Len(AllSeasonsList) = 2
        /\ \A s \in Seasons : seasonsTbl[s].lastScrapedAt = 1
        /\ rs[r].targets = <<>>

\* the ids a row of the match g can have: the id of the schedule feed or the
\* synthetic id of the GUID
IdsOf(g) == {MatchId(g), guidToFakeId(g)}

\* the recap that section I of run r is processing
RecapAtHand(r) == rs[r].segs[rs[r].i]

\* C29: when two teams meet more than once in a season with the same
\* orientation, processing the recap of one of the matches writes the score,
\* status, round and GUID of that match's row only: a step of section I on the
\* recap of g leaves every row of another match as it was.
C29_OwnMatchOnly ==
    [][\A r \in Runs :
          rs[r].pc \in {"Iupd", "Iins"} /\ rs[r].i <= Len(rs[r].segs) =>
              \A row \in matchesTbl :
                  row.id \notin IdsOf(RecapAtHand(r)) => row \in matchesTbl']_vars

\* C30: after any interleaving of concurrent config writes, each a delete
\* followed by an insert, the store holds at most one row per (scope,
\* division, key), rows with a null division included, and every write
\* request succeeds.
C30_OneRowPerKey ==
    calc.op = "cfgWrite" =>
        /\ \A a, b \in calc.tbl :
             a.scope = b.scope /\ a.division = b.division /\ a.key = b.key => a = b
        /\ \A i \in CfgWriters : calc.w[i].pc # "failed"

====
